---- MODULE Spec2Model ----
(***************************************************************************)
(* The MediSync EHR backend (Express routers over Mongoose models) as a    *)
(* state machine.  The state is the document store (one collection per    *)
(* model) and the last request/response pair; every route handler is one   *)
(* action that takes an authenticated request and produces the response    *)
(* together with the store change the handler makes.                       *)
(***************************************************************************)
EXTENDS Integers, Sequences, FiniteSets, TLC

\* ------------------------------------------------------------------ bounds
\* Documents ever created per collection (ObjectIds are 1..Max, never reused).
MaxPatients == 2
MaxDoctors == 1
MaxStaff == 1
MaxAppointments == 1
\* User accounts that POST /api/staff may add to the registered ones.
MaxNewUsers == 1

Tenants == {"h1", "h2"}
Roles == {"hospitalOwner", "doctor", "staff", "patient"}

\* The accounts registered before the first request (registration is served
\* by the auth router): every role occurs, both tenants have an owner.
RegisteredUsers ==
  <<[hospitalId |-> "h1", role |-> "hospitalOwner"],
    [hospitalId |-> "h2", role |-> "hospitalOwner"],
    [hospitalId |-> "h1", role |-> "doctor"],
    [hospitalId |-> "h2", role |-> "staff"],
    [hospitalId |-> "h1", role |-> "patient"]>>

UserIds == 1..(Len(RegisteredUsers) + MaxNewUsers)
PatientIds == 1..MaxPatients
DoctorIds == 1..MaxDoctors
StaffIds == 1..MaxStaff
AppointmentIds == 1..MaxAppointments

\* A behaviour sends its requests to one router.  The appointments router
\* starts with the patients and doctors its documents may reference.
Scenarios == {"patients", "doctors", "staff", "appointments", "records"}

VARIABLES
  scenario,      \* the router the requests of this behaviour go to
  users,         \* User collection:        _id -> document
  patients,      \* Patient collection:     _id -> document
  doctors,       \* Doctor collection:      _id -> document
  staff,         \* Staff collection:       _id -> document
  appointments,  \* Appointment collection: _id -> document
  nextId,        \* per collection, the number of ObjectIds handed out
  last,          \* the last request and the response it got
  inflight       \* the requests served at the same time: slot -> progress

vars ==
  <<scenario, users, patients, doctors, staff, appointments, nextId, last, inflight>>

\* ------------------------------------------------------- JavaScript helpers
\* {...a, ...b}: the fields of both, b's value where both have the field.
Spread(a, b) ==
  [f \in (DOMAIN a) \cup (DOMAIN b) |-> IF f \in DOMAIN b THEN b[f] ELSE a[f]]

Has(obj, f) == f \in DOMAIN obj

NoFields == <<>>

\* A stored document as a response shows it.
Doc(coll, id) == Spread(coll[id], [_id |-> id])

\* The ids of S in descending / ascending order.
RECURSIVE SortDesc(_)
SortDesc(S) ==
  IF S = {} THEN <<>>
  ELSE LET m == CHOOSE x \in S : \A y \in S : y <= x
       IN <<m>> \o SortDesc(S \ {m})

RECURSIVE SortAsc(_)
SortAsc(S) ==
  IF S = {} THEN <<>>
  ELSE LET m == CHOOSE x \in S : \A y \in S : x <= y
       IN <<m>> \o SortAsc(S \ {m})

Min(a, b) == IF a <= b THEN a ELSE b

\* Math.ceil(total / limit) for total >= 0 and limit >= 1.
Ceil(total, limit) == (total + limit - 1) \div limit

\* --------------------------------------------------------------- responses
\* res.status(code).json(body)
Json(code, body) == [status |-> code, body |-> body]

Ok(body) == Json(200, Spread([success |-> TRUE], body))
Created(message, doc) ==
  Json(201, [success |-> TRUE, message |-> message, data |-> doc])
NotFoundSuccess(message) == Json(404, [success |-> TRUE, message |-> message])
NotFound(message) == Json(404, [success |-> FALSE, message |-> message])
ServerErrorUncaught == Json(500, [stack |-> "trace"])
ServerError == Json(500, [success |-> FALSE, message |-> "Server error"])
Forbidden == Json(403, [success |-> FALSE, message |-> "Access denied"])

\* -------------------------------------------------------------- middleware
\* auth: the request context of an authenticated user, req.user and
\* req.hospitalId.
Auth(u) ==
  [user |-> [_id |-> u, role |-> users[u].role],
   hospitalId |-> users[u].hospitalId]

\* authorize(...roles): the gate passes the roles it lists.
Authorize(roles, ctx) == ctx.user.role \in roles

Request(route, ctx, params, query, body) ==
  [route |-> route, user |-> ctx.user._id, role |-> ctx.user.role,
   hospitalId |-> ctx.hospitalId, params |-> params, query |-> query,
   body |-> body]

NoRequest ==
  [route |-> "none", user |-> 0, role |-> "none", hospitalId |-> "none",
   params |-> NoFields, query |-> NoFields, body |-> NoFields]

Exchange(req, res) == [req |-> req, res |-> res]

\* No request is being served: the listener waits for the next one.
Idle == Exchange(NoRequest, Json(0, NoFields))

\* ---------------------------------------------------------------- Mongoose
\* A findOne({_id}) that lacks the hospitalId path of the filter: what the
\* by-id routes would run without their tenant predicate.
FindOneAnyTenant(coll, id, hospitalId) ==
  {i \in DOMAIN coll : i = id}

\* Model.findOne({_id: id, hospitalId: hospitalId}): the ids of the matching
\* documents (none or one).
FindOne(coll, id, hospitalId) ==
  {i \in DOMAIN coll : i = id /\ coll[i].hospitalId = hospitalId}

\* new Model(data): the schema's paths, from data where it has them and from
\* the schema's defaults elsewhere; other fields of data are dropped.
NewDoc(defaults, data) ==
  [f \in DOMAIN defaults |-> IF Has(data, f) THEN data[f] ELSE defaults[f]]

\* The $set that findOneAndUpdate makes of a plain update object: the paths of
\* the schema that the update names take its values.
ApplyUpdate(doc, update) ==
  [f \in DOMAIN doc |-> IF Has(update, f) THEN update[f] ELSE doc[f]]

\* collection with document id stored / replaced / removed
Put(coll, id, doc) ==
  [i \in (DOMAIN coll) \cup {id} |-> IF i = id THEN doc ELSE coll[i]]
Remove(coll, id) == [i \in (DOMAIN coll) \ {id} |-> coll[i]]

\* The readings of the clock that the model tells apart: the one at which a
\* document is created and a later one, at which it is written again.
Clock == [created |-> 0, later |-> 1]

\* The schema option timestamps: a save or a findOneAndUpdate sets updatedAt
\* to the reading of the clock.  The model keeps updatedAt on staff documents.
Touch(doc, now) == Spread(doc, [updatedAt |-> now])

\* new RegExp(search, 'i').test(value), over the names the model uses
RegexTest(pattern, value) ==
  <<pattern, value>> \in {<<"an", "ann">>, <<"e1", "E1">>}

\* ------------------------------------------------------------------ Express
\* The routes of each router in the order the file declares them.
Routers ==
  [patients |->
     <<[method |-> "GET", path |-> <<>>, name |-> "GET /api/patients"],
       [method |-> "GET", path |-> <<":id">>, name |-> "GET /api/patients/:id"],
       [method |-> "POST", path |-> <<>>, name |-> "POST /api/patients"],
       [method |-> "PUT", path |-> <<":id">>, name |-> "PUT /api/patients/:id"],
       [method |-> "DELETE", path |-> <<":id">>, name |-> "DELETE /api/patients/:id"],
       [method |-> "GET", path |-> <<"recent">>, name |-> "GET /api/patients/recent"]>>,
   doctors |->
     <<[method |-> "GET", path |-> <<>>, name |-> "GET /api/doctors"],
       [method |-> "GET", path |-> <<":id">>, name |-> "GET /api/doctors/:id"],
       [method |-> "POST", path |-> <<>>, name |-> "POST /api/doctors"],
       [method |-> "PUT", path |-> <<":id">>, name |-> "PUT /api/doctors/:id"],
       [method |-> "GET", path |-> <<"available">>, name |-> "GET /api/doctors/available"]>>,
   staff |->
     <<[method |-> "GET", path |-> <<>>, name |-> "GET /api/staff"],
       [method |-> "POST", path |-> <<>>, name |-> "POST /api/staff"],
       [method |-> "PUT", path |-> <<":id">>, name |-> "PUT /api/staff/:id"],
       [method |-> "DELETE", path |-> <<":id">>, name |-> "DELETE /api/staff/:id"],
       [method |-> "GET", path |-> <<"departments">>,
        name |-> "GET /api/staff/departments"]>>,
   appointments |->
     <<[method |-> "GET", path |-> <<>>, name |-> "GET /api/appointments"],
       [method |-> "POST", path |-> <<>>, name |-> "POST /api/appointments"],
       [method |-> "PUT", path |-> <<":id">>, name |-> "PUT /api/appointments/:id"],
       [method |-> "DELETE", path |-> <<":id">>, name |-> "DELETE /api/appointments/:id"],
       [method |-> "GET", path |-> <<"upcoming">>,
        name |-> "GET /api/appointments/upcoming"],
       [method |-> "GET", path |-> <<"doctor", ":doctorId">>,
        name |-> "GET /api/appointments/doctor/:doctorId"]>>]

\* A route path matches the segments of a request path: a parameter segment
\* takes any word, another segment only itself.
Matches(path, segments) ==
  /\ Len(path) = Len(segments)
  /\ \A k \in DOMAIN path : path[k] \in {":id", ":doctorId"} \/ path[k] = segments[k]

\* The route Express hands a request to: the first declared one whose method
\* and path match.
Dispatch(router, method, segments) ==
  LET hits == {k \in DOMAIN router :
                 router[k].method = method /\ Matches(router[k].path, segments)}
  IN IF hits = {} THEN "none"
     ELSE router[CHOOSE k \in hits : \A j \in hits : k <= j].name

\* ---------------------------------------------------------- list pagination
DefaultLimit == 10

\* parseInt(req.query.page) || 1
ParsePage(query) ==
  IF Has(query, "page") /\ query.page # 0 THEN query.page ELSE 1

\* parseInt(req.query.limit) || 10
ParseLimit(query) ==
  IF Has(query, "limit") /\ query.limit # 0 THEN query.limit ELSE DefaultLimit

\* (page - 1) * limit
SkipOf(page, limit) == (page - 1) * limit

\* .skip(skip).limit(limit) of the sorted matches
Window(matches, skip, limit) ==
  SubSeq(matches, skip + 1, Min(Len(matches), skip + limit))

\* The pagination block of a list response.
Pagination(page, limit, total) ==
  [page |-> page, limit |-> limit, total |-> total, pages |-> Ceil(total, limit)]

\* find(query).sort().skip(skip).limit(limit), countDocuments(query) and the
\* response built from them; the store refuses a negative skip and the catch
\* block answers 500.
ListResponse(matches, query) ==
  LET page == ParsePage(query)
      limit == ParseLimit(query)
      skip == SkipOf(page, limit)
  IN IF skip < 0
       THEN ServerError
       ELSE Ok([data |-> Window(matches, skip, limit),
                pagination |-> Pagination(page, limit, Len(matches))])

\* The page and limit parameters a list request may carry (absent, or a number).
Pages == {-1, 0, 1, 2}
Limits == {1, 2}
PageQueries ==
  {Spread(p, l) : p \in {NoFields} \cup {[page |-> n] : n \in Pages},
                  l \in {NoFields} \cup {[limit |-> n] : n \in Limits}}

\* ================================================================ patients
Names == {"ann", "bob"}
\* String.length of the first names a request body may carry.
StrLen(s) == CASE s = "x" -> 1 [] s = "" -> 0 [] OTHER -> 3

PatientStatuses == {"Active", "Inactive"}

\* The Patient schema's paths with their defaults ("" where a required path
\* has none).
PatientDefaults == [hospitalId |-> "", firstName |-> "", status |-> "Active"]

\* Schema validation of a Patient document or of an update's paths.
PatientValid(doc) ==
  /\ Has(doc, "hospitalId") => doc.hospitalId # ""
  /\ Has(doc, "firstName") => doc.firstName # ""
  /\ Has(doc, "status") => doc.status \in PatientStatuses

\* The bodies of POST /api/patients and of PUT /api/patients/:id.
PatientBodies ==
  {Spread([firstName |-> n], h) :
     n \in {"ann", "x"},
     h \in {NoFields} \cup {[hospitalId |-> t] : t \in Tenants}}
PatientUpdates ==
  {[status |-> "Inactive"], [status |-> "Active"], [status |-> "Bogus"],
   [firstName |-> "bob"]}
    \cup {[hospitalId |-> t] : t \in Tenants}

\* The search and status parameters of GET /api/patients.
PatientQueries ==
  {Spread(Spread(pq, s), st) :
     pq \in PageQueries,
     s \in {NoFields, [search |-> "an"]},
     st \in {NoFields, [status |-> "Inactive"]}}

\* The query of GET /api/patients without its hospitalId path.
PatientQueryAnyTenant(doc, hospitalId, query) ==
  /\ Has(query, "search") => RegexTest(query.search, doc.firstName)
  /\ Has(query, "status") => doc.status = query.status

\* The filter object of GET /api/patients applied to one document.
PatientQueryMatches(doc, hospitalId, query) ==
  /\ doc.hospitalId = hospitalId
  /\ Has(query, "search") => RegexTest(query.search, doc.firstName)
  /\ Has(query, "status") => doc.status = query.status

\* Patient.find(query).sort({createdAt: -1}): the newest first.
PatientFind(hospitalId, query) ==
  LET ids == SortDesc({i \in DOMAIN patients :
                         PatientQueryMatches(patients[i], hospitalId, query)})
  IN [k \in 1..Len(ids) |-> Doc(patients, ids[k])]

\* GET /api/patients
GetPatients ==
  /\ last = Idle
  /\ scenario = "patients"
  /\ \E u \in DOMAIN users, query \in PatientQueries :
       LET ctx == Auth(u)
           req == Request("GET /api/patients", ctx, NoFields, query, NoFields)
       IN last' = Exchange(req, ListResponse(PatientFind(ctx.hospitalId, query), query))
  /\ UNCHANGED <<inflight, scenario, users, patients, doctors, staff, appointments, nextId>>

\* GET /api/patients/:id
GetPatient ==
  /\ last = Idle
  /\ scenario = "patients"
  /\ \E u \in DOMAIN users, id \in PatientIds :
       LET ctx == Auth(u)
           req == Request("GET /api/patients/:id", ctx, [id |-> id], NoFields, NoFields)
           found == FindOne(patients, id, ctx.hospitalId)
       IN last' = Exchange(req, IF found = {} THEN NotFound("Patient not found")
                                ELSE Ok([data |-> Doc(patients, id)]))
  /\ UNCHANGED <<inflight, scenario, users, patients, doctors, staff, appointments, nextId>>

\* The express-validator chain of POST /api/patients.
PatientValidationErrors(body) ==
  IF Has(body, "firstName") /\ StrLen(body.firstName) >= 2
    THEN <<>>
    ELSE <<[path |-> "firstName", msg |-> "First name must be at least 2 characters"]>>

\* {hospitalId: req.hospitalId, ...req.body}: the spread after the stamp, which
\* lets the body's hospitalId win.
PatientDataBodyLast(body, ctx) == Spread([hospitalId |-> ctx.hospitalId], body)

\* const patientData = {...req.body, hospitalId: req.hospitalId}
PatientData(body, ctx) == Spread(body, [hospitalId |-> ctx.hospitalId])

\* A gate that lets every role through.
PostPatientRolesAll == Roles

\* authorize(...) of the route below
PostPatientRoles == {"doctor", "hospitalOwner", "staff"}

\* POST /api/patients
PostPatient ==
  /\ last = Idle
  /\ scenario = "patients"
  /\ nextId.patients < MaxPatients
  /\ \E u \in DOMAIN users, body \in PatientBodies :
       LET ctx == Auth(u)
           req == Request("POST /api/patients", ctx, NoFields, NoFields, body)
           errors == PatientValidationErrors(body)
           id == nextId.patients + 1
           patient == NewDoc(PatientDefaults, PatientData(body, ctx))
       IN IF ~Authorize(PostPatientRoles, ctx)
            THEN /\ last' = Exchange(req, Forbidden)
                 /\ UNCHANGED <<patients, nextId>>
          ELSE IF errors # <<>>
            THEN /\ last' = Exchange(req, Json(400, [success |-> FALSE,
                                message |-> "Validation errors", errors |-> errors]))
                 /\ UNCHANGED <<patients, nextId>>
          ELSE IF ~PatientValid(patient)
            THEN /\ last' = Exchange(req, ServerError)
                 /\ UNCHANGED <<patients, nextId>>
          ELSE /\ patients' = Put(patients, id, patient)
               /\ nextId' = [nextId EXCEPT !.patients = id]
               /\ last' = Exchange(req, Created("Patient created successfully",
                                                Spread(patient, [_id |-> id])))
  /\ UNCHANGED <<inflight, scenario, users, doctors, staff, appointments>>

\* authorize(...) of the route below
PutPatientRoles == {"doctor", "hospitalOwner", "staff"}

\* PUT /api/patients/:id
PutPatient ==
  /\ last = Idle
  /\ scenario = "patients"
  /\ \E u \in DOMAIN users, id \in PatientIds, body \in PatientUpdates :
       LET ctx == Auth(u)
           req == Request("PUT /api/patients/:id", ctx, [id |-> id], NoFields, body)
           found == FindOne(patients, id, ctx.hospitalId)
           updated == ApplyUpdate(patients[id], body)
       IN IF ~Authorize(PutPatientRoles, ctx)
            THEN /\ last' = Exchange(req, Forbidden)
                 /\ UNCHANGED patients
          ELSE IF ~PatientValid(body)
            THEN /\ last' = Exchange(req, ServerError)
                 /\ UNCHANGED patients
          ELSE IF found = {}
            THEN /\ last' = Exchange(req, NotFound("Patient not found"))
                 /\ UNCHANGED patients
          ELSE /\ patients' = Put(patients, id, updated)
               /\ last' = Exchange(req, Ok([message |-> "Patient updated successfully",
                                            data |-> Spread(updated, [_id |-> id])]))
  /\ UNCHANGED <<inflight, scenario, users, doctors, staff, appointments, nextId>>

\* authorize('hospitalOwner', 'doctor'): a wider list than the route has.
DeletePatientRolesWider == {"hospitalOwner", "doctor"}

\* authorize(...) of the route below
DeletePatientRoles == {"hospitalOwner"}

\* DELETE /api/patients/:id
DeletePatient ==
  /\ last = Idle
  /\ scenario = "patients"
  /\ \E u \in DOMAIN users, id \in PatientIds :
       LET ctx == Auth(u)
           req == Request("DELETE /api/patients/:id", ctx, [id |-> id], NoFields, NoFields)
           found == FindOne(patients, id, ctx.hospitalId)
       IN IF ~Authorize(DeletePatientRoles, ctx)
            THEN /\ last' = Exchange(req, Forbidden)
                 /\ UNCHANGED patients
          ELSE IF found = {}
            THEN /\ last' = Exchange(req, NotFound("Patient not found"))
                 /\ UNCHANGED patients
          ELSE /\ patients' = Remove(patients, id)
               /\ last' = Exchange(req, Ok([message |-> "Patient deleted successfully"]))
  /\ UNCHANGED <<inflight, scenario, users, doctors, staff, appointments, nextId>>

\* GET /api/patients/recent, as the router dispatches it.  Under GET /:id the
\* path word is req.params.id: findOne cannot cast it to an ObjectId and the
\* catch block answers.  The documents of the model carry no lastVisit, which
\* the query of the /recent handler asks for.
GetPatientsRecent ==
  /\ last = Idle
  /\ scenario = "patients"
  /\ \E u \in DOMAIN users :
       LET ctx == Auth(u)
           req == Request("GET /api/patients/recent", ctx, NoFields, NoFields, NoFields)
           handler == Dispatch(Routers.patients, "GET", <<"recent">>)
           ids == SortDesc({i \in DOMAIN patients :
                              /\ patients[i].hospitalId = ctx.hospitalId
                              /\ Has(patients[i], "lastVisit")})
       IN last' = Exchange(req,
            IF handler = "GET /api/patients/:id" THEN ServerError
            ELSE Ok([data |-> [k \in 1..Len(ids) |-> Doc(patients, ids[k])]]))
  /\ UNCHANGED <<inflight, scenario, users, patients, doctors, staff, appointments, nextId>>

\* ================================================================= doctors
DoctorStatuses == {"Available", "Busy", "Off Duty"}

\* doctorSchema: the paths the model keeps, with their defaults (0 where the
\* required userId is not given).
DoctorDefaults == [userId |-> 0, hospitalId |-> "", status |-> "Available"]

\* Schema validation of a Doctor document or of an update's paths.
DoctorValid(doc) ==
  /\ Has(doc, "userId") => doc.userId # 0
  /\ Has(doc, "hospitalId") => doc.hospitalId # ""
  /\ Has(doc, "status") => doc.status \in DoctorStatuses

\* The absent document of a populated path.
Null == [null |-> TRUE]

\* .populate('userId', ...): the User document with that _id, whatever its
\* tenant, or null.
PopulateUser(doc) ==
  Spread(doc, [userId |-> IF doc.userId \in DOMAIN users
                            THEN [_id |-> doc.userId] ELSE Null])

\* The bodies of POST /api/doctors and of PUT /api/doctors/:id.
DoctorBodies ==
  {Spread(h, x) :
     h \in {NoFields} \cup {[hospitalId |-> t] : t \in Tenants},
     x \in {NoFields, [userId |-> 2], [status |-> "Bogus"]}}
DoctorUpdates ==
  {[status |-> "Busy"], [status |-> "Bogus"], [userId |-> 2]}
    \cup {[hospitalId |-> t] : t \in Tenants}

\* Doctor.find({hospitalId}).populate('userId').sort({createdAt: -1})
DoctorFind(hospitalId) ==
  LET ids == SortDesc({i \in DOMAIN doctors : doctors[i].hospitalId = hospitalId})
  IN [k \in 1..Len(ids) |-> PopulateUser(Doc(doctors, ids[k]))]

\* GET /api/doctors
GetDoctors ==
  /\ last = Idle
  /\ scenario = "doctors"
  /\ \E u \in DOMAIN users :
       LET ctx == Auth(u)
           req == Request("GET /api/doctors", ctx, NoFields, NoFields, NoFields)
       IN last' = Exchange(req, Ok([data |-> DoctorFind(ctx.hospitalId)]))
  /\ UNCHANGED <<inflight, scenario, users, patients, doctors, staff, appointments, nextId>>

\* GET /api/doctors/:id
GetDoctor ==
  /\ last = Idle
  /\ scenario = "doctors"
  /\ \E u \in DOMAIN users, id \in DoctorIds :
       LET ctx == Auth(u)
           req == Request("GET /api/doctors/:id", ctx, [id |-> id], NoFields, NoFields)
           found == FindOne(doctors, id, ctx.hospitalId)
       IN last' = Exchange(req, IF found = {} THEN NotFound("Doctor not found")
                                ELSE Ok([data |-> PopulateUser(Doc(doctors, id))]))
  /\ UNCHANGED <<inflight, scenario, users, patients, doctors, staff, appointments, nextId>>

\* A spread that lets the body override the stamped fields.
DoctorDataBodyLast(body, ctx) ==
  Spread([hospitalId |-> ctx.hospitalId, userId |-> ctx.user._id], body)

\* const doctorData = {...req.body, hospitalId: req.hospitalId, userId: req.user._id}
DoctorData(body, ctx) ==
  Spread(body, [hospitalId |-> ctx.hospitalId, userId |-> ctx.user._id])

\* authorize(...) of the route below
PostDoctorRoles == {"hospitalOwner", "doctor"}

\* POST /api/doctors
PostDoctor ==
  /\ last = Idle
  /\ scenario = "doctors"
  /\ nextId.doctors < MaxDoctors
  /\ \E u \in DOMAIN users, body \in DoctorBodies, roleUpdate \in {"ok", "error"} :
       LET ctx == Auth(u)
           req == Request("POST /api/doctors", ctx, NoFields, NoFields, body)
           id == nextId.doctors + 1
           doctor == NewDoc(DoctorDefaults, DoctorData(body, ctx))
       IN IF ~Authorize(PostDoctorRoles, ctx)
            THEN /\ last' = Exchange(req, Forbidden)
                 /\ UNCHANGED <<users, doctors, nextId>>
          ELSE IF ~DoctorValid(doctor)
            THEN /\ last' = Exchange(req, ServerError)
                 /\ UNCHANGED <<users, doctors, nextId>>
          ELSE IF roleUpdate = "error"
            THEN /\ doctors' = Put(doctors, id, doctor)
                 /\ nextId' = [nextId EXCEPT !.doctors = id]
                 /\ last' = Exchange(req, ServerError)
                 /\ UNCHANGED users
          ELSE /\ doctors' = Put(doctors, id, doctor)
               /\ nextId' = [nextId EXCEPT !.doctors = id]
               /\ users' = [users EXCEPT ![ctx.user._id].role = "doctor"]
               /\ last' = Exchange(req, Created("Doctor profile created successfully",
                                                Spread(doctor, [_id |-> id])))
  /\ UNCHANGED <<inflight, scenario, patients, staff, appointments>>

\* authorize(...) of the route below
PutDoctorRoles == {"hospitalOwner", "doctor"}

\* PUT /api/doctors/:id
PutDoctor ==
  /\ last = Idle
  /\ scenario = "doctors"
  /\ \E u \in DOMAIN users, id \in DoctorIds, body \in DoctorUpdates :
       LET ctx == Auth(u)
           req == Request("PUT /api/doctors/:id", ctx, [id |-> id], NoFields, body)
           found == FindOne(doctors, id, ctx.hospitalId)
           updated == ApplyUpdate(doctors[id], body)
       IN IF ~Authorize(PutDoctorRoles, ctx)
            THEN /\ last' = Exchange(req, Forbidden)
                 /\ UNCHANGED doctors
          ELSE IF ~DoctorValid(body)
            THEN /\ last' = Exchange(req, ServerError)
                 /\ UNCHANGED doctors
          ELSE IF found = {}
            THEN /\ last' = Exchange(req, NotFound("Doctor not found"))
                 /\ UNCHANGED doctors
          ELSE /\ doctors' = Put(doctors, id, updated)
               /\ last' = Exchange(req, Ok([message |-> "Doctor updated successfully",
                              data |-> PopulateUser(Spread(updated, [_id |-> id]))]))
  /\ UNCHANGED <<inflight, scenario, users, patients, staff, appointments, nextId>>


\* GET /api/doctors/available, as the router dispatches it.  Under GET /:id the
\* path word is req.params.id: findOne cannot cast it to an ObjectId and the
\* catch block answers.
GetDoctorsAvailable ==
  /\ last = Idle
  /\ scenario = "doctors"
  /\ \E u \in DOMAIN users :
       LET ctx == Auth(u)
           req == Request("GET /api/doctors/available", ctx, NoFields, NoFields, NoFields)
           handler == Dispatch(Routers.doctors, "GET", <<"available">>)
           ids == SortAsc({i \in DOMAIN doctors :
                             /\ doctors[i].hospitalId = ctx.hospitalId
                             /\ doctors[i].status = "Available"})
       IN last' = Exchange(req,
            IF handler = "GET /api/doctors/:id" THEN ServerError
            ELSE Ok([data |-> [k \in 1..Len(ids) |-> PopulateUser(Doc(doctors, ids[k]))]]))
  /\ UNCHANGED <<inflight, scenario, users, patients, doctors, staff, appointments, nextId>>

\* =================================================================== staff
StaffStatuses == {"active", "inactive", "on-leave"}
Departments == {"Nursing", "Billing"}
EmployeeIds == {"E1", "E2"}

\* staffSchema: the paths the model keeps, with their defaults ("" and 0 where
\* a required path is not given).
StaffDefaults ==
  [userId |-> 0, employeeId |-> "", department |-> "", status |-> "active",
   hospitalId |-> ""]

\* A schema that accepts every staff profile.
StaffValidAlways(doc) == TRUE

\* Schema validation of a Staff document or of an update's paths.
StaffValid(doc) ==
  /\ Has(doc, "userId") => doc.userId # 0
  /\ Has(doc, "employeeId") => doc.employeeId # ""
  /\ Has(doc, "department") => doc.department \in Departments
  /\ Has(doc, "status") => doc.status \in StaffStatuses
  /\ Has(doc, "hospitalId") => doc.hospitalId # ""

\* employeeId is declared unique: the index refuses a second document of the
\* collection with the same employeeId.
StaffDuplicate(id, doc) ==
  \E i \in DOMAIN staff : i # id /\ staff[i].employeeId = doc.employeeId

\* The paths of the User model the model keeps; an account needs an email.
UserDefaults == [hospitalId |-> "", role |-> "patient"]
UserValid(data) == Has(data, "email") /\ data.hospitalId # ""

\* .populate('userId', 'email role createdAt')
PopulateStaffUser(doc) ==
  Spread(doc, [userId |-> IF doc.userId \in DOMAIN users
                            THEN [_id |-> doc.userId, role |-> users[doc.userId].role]
                            ELSE Null])

\* The bodies of POST /api/staff and of PUT /api/staff/:id.
StaffUserData ==
  {NoFields, [email |-> "s@x"],
   [email |-> "s@x", role |-> "hospitalOwner", hospitalId |-> "h1"],
   [email |-> "s@x", role |-> "hospitalOwner", hospitalId |-> "h2"]}
StaffData ==
  {Spread([department |-> "Nursing"], x) :
     x \in {NoFields} \cup {[employeeId |-> e] : e \in EmployeeIds}
           \cup {[employeeId |-> "E1", hospitalId |-> t, userId |-> 1] : t \in Tenants}}
StaffBodies == {[userData |-> ud, staffData |-> sd] : ud \in StaffUserData, sd \in StaffData}
StaffUpdates ==
  {[status |-> "on-leave"], [status |-> "Bogus"], [employeeId |-> "E2"],
   [department |-> "Billing"]}
    \cup {[hospitalId |-> t] : t \in Tenants}

\* The department and search parameters of GET /api/staff.
StaffQueries ==
  {Spread(Spread(pq, d), s) :
     pq \in PageQueries,
     d \in {NoFields, [department |-> "Billing"]},
     s \in {NoFields, [search |-> "e1"]}}

\* The filter object of GET /api/staff applied to one document.
StaffQueryMatches(doc, hospitalId, query) ==
  /\ doc.hospitalId = hospitalId
  /\ Has(query, "department") => doc.department = query.department
  /\ Has(query, "search") => RegexTest(query.search, doc.employeeId)

\* Staff.find(query).populate('userId').sort({firstName: 1, lastName: 1}); the
\* model keeps no names, which leaves the store's own order.
StaffFind(hospitalId, query) ==
  LET ids == SortAsc({i \in DOMAIN staff :
                        StaffQueryMatches(staff[i], hospitalId, query)})
  IN [k \in 1..Len(ids) |-> PopulateStaffUser(Doc(staff, ids[k]))]

\* authorize(...) of the route below
GetStaffRoles == {"hospitalOwner", "staff"}

\* GET /api/staff
GetStaff ==
  /\ last = Idle
  /\ scenario = "staff"
  /\ \E u \in DOMAIN users, query \in StaffQueries :
       LET ctx == Auth(u)
           req == Request("GET /api/staff", ctx, NoFields, query, NoFields)
       IN last' = Exchange(req,
                    IF ~Authorize(GetStaffRoles, ctx) THEN Forbidden
                    ELSE ListResponse(StaffFind(ctx.hospitalId, query), query))
  /\ UNCHANGED <<inflight, scenario, users, patients, doctors, staff, appointments, nextId>>

\* A spread that lets userData override the stamped role and tenant.
UserAccountDataBodyLast(userData, ctx) ==
  Spread([role |-> "staff", hospitalId |-> ctx.hospitalId], userData)

\* const userAccountData = {...userData, role: 'staff', hospitalId: req.hospitalId}
UserAccountData(userData, ctx) ==
  Spread(userData, [role |-> "staff", hospitalId |-> ctx.hospitalId])

\* const staffProfileData = {...staffData, userId: user._id, hospitalId: req.hospitalId}
StaffProfileData(staffData, userId, ctx) ==
  Spread(staffData, [userId |-> userId, hospitalId |-> ctx.hospitalId])

\* authorize(...) of the route below
PostStaffRoles == {"hospitalOwner"}

\* POST /api/staff: the user account is saved first, the staff profile second.
PostStaff ==
  /\ last = Idle
  /\ scenario = "staff"
  /\ nextId.staff < MaxStaff
  /\ nextId.users < Len(RegisteredUsers) + MaxNewUsers
  /\ \E u \in DOMAIN users, body \in StaffBodies :
       LET ctx == Auth(u)
           req == Request("POST /api/staff", ctx, NoFields, NoFields, body)
           userAccountData == UserAccountData(body.userData, ctx)
           userId == nextId.users + 1
           user == NewDoc(UserDefaults, userAccountData)
           id == nextId.staff + 1
           profile == Touch(NewDoc(StaffDefaults,
                                   StaffProfileData(body.staffData, userId, ctx)),
                            Clock.created)
       IN IF ~Authorize(PostStaffRoles, ctx)
            THEN /\ last' = Exchange(req, Forbidden)
                 /\ UNCHANGED <<users, staff, nextId>>
          ELSE IF ~UserValid(userAccountData)
            THEN /\ last' = Exchange(req, ServerError)
                 /\ UNCHANGED <<users, staff, nextId>>
          ELSE IF ~StaffValid(profile) \/ StaffDuplicate(id, profile)
            THEN /\ users' = Put(users, userId, user)
                 /\ nextId' = [nextId EXCEPT !.users = userId]
                 /\ last' = Exchange(req, ServerError)
                 /\ UNCHANGED staff
          ELSE /\ users' = Put(users, userId, user)
               /\ staff' = Put(staff, id, profile)
               /\ nextId' = [nextId EXCEPT !.users = userId, !.staff = id]
               /\ last' = Exchange(req, Created("Staff member created successfully",
                            Spread(profile, [_id |-> id,
                                             userId |-> [_id |-> userId, role |-> user.role]])))
  /\ UNCHANGED <<inflight, scenario, patients, doctors, appointments>>

\* authorize(...) of the route below
PutStaffRoles == {"hospitalOwner"}

\* PUT /api/staff/:id
PutStaff ==
  /\ last = Idle
  /\ scenario = "staff"
  /\ \E u \in DOMAIN users, id \in StaffIds, body \in StaffUpdates :
       LET ctx == Auth(u)
           req == Request("PUT /api/staff/:id", ctx, [id |-> id], NoFields, body)
           found == FindOne(staff, id, ctx.hospitalId)
           updated == Touch(ApplyUpdate(staff[id], body), Clock.later)
       IN IF ~Authorize(PutStaffRoles, ctx)
            THEN /\ last' = Exchange(req, Forbidden)
                 /\ UNCHANGED staff
          ELSE IF ~StaffValid(body)
            THEN /\ last' = Exchange(req, ServerError)
                 /\ UNCHANGED staff
          ELSE IF found = {}
            THEN /\ last' = Exchange(req, NotFound("Staff member not found"))
                 /\ UNCHANGED staff
          ELSE IF StaffDuplicate(id, updated)
            THEN /\ last' = Exchange(req, ServerError)
                 /\ UNCHANGED staff
          ELSE /\ staff' = Put(staff, id, updated)
               /\ last' = Exchange(req, Ok([message |-> "Staff member updated successfully",
                              data |-> PopulateStaffUser(Spread(updated, [_id |-> id]))]))
  /\ UNCHANGED <<inflight, scenario, users, patients, doctors, appointments, nextId>>

\* authorize(...) of the route below
DeleteStaffRoles == {"hospitalOwner"}

\* DELETE /api/staff/:id
DeleteStaff ==
  /\ last = Idle
  /\ scenario = "staff"
  /\ \E u \in DOMAIN users, id \in StaffIds :
       LET ctx == Auth(u)
           req == Request("DELETE /api/staff/:id", ctx, [id |-> id], NoFields, NoFields)
           found == FindOne(staff, id, ctx.hospitalId)
           updated == Touch(ApplyUpdate(staff[id], [status |-> "inactive"]),
                           Clock.later)
       IN IF ~Authorize(DeleteStaffRoles, ctx)
            THEN /\ last' = Exchange(req, Forbidden)
                 /\ UNCHANGED staff
          ELSE IF found = {}
            THEN /\ last' = Exchange(req, NotFound("Staff member not found"))
                 /\ UNCHANGED staff
          ELSE /\ staff' = Put(staff, id, updated)
               /\ last' = Exchange(req, Ok([message |-> "Staff member deactivated successfully",
                                            data |-> Spread(updated, [_id |-> id])]))
  /\ UNCHANGED <<inflight, scenario, users, patients, doctors, appointments, nextId>>


\* {$sort: {_id: 1}} of the department names.
DepartmentsAsc == <<"Billing", "Nursing">>

\* GET /api/staff/departments: the tenant's active staff grouped by department;
\* each group pushes its members in the order the store yields them.
GetStaffDepartments ==
  /\ last = Idle
  /\ scenario = "staff"
  /\ Dispatch(Routers.staff, "GET", <<"departments">>) = "GET /api/staff/departments"
  /\ \E u \in DOMAIN users :
       LET ctx == Auth(u)
           req == Request("GET /api/staff/departments", ctx, NoFields, NoFields,
                          NoFields)
           Members(d) == SortAsc({i \in DOMAIN staff :
                                    /\ staff[i].hospitalId = ctx.hospitalId
                                    /\ staff[i].status = "active"
                                    /\ staff[i].department = d})
           Group(d) == [_id |-> d, count |-> Len(Members(d)),
                        staff |-> [k \in 1..Len(Members(d)) |->
                                     [_id |-> Members(d)[k],
                                      employeeId |-> staff[Members(d)[k]].employeeId]]]
           groups == SelectSeq(DepartmentsAsc, LAMBDA d : Len(Members(d)) > 0)
       IN last' = Exchange(req, Ok([data |-> [k \in 1..Len(groups) |-> Group(groups[k])]]))
  /\ UNCHANGED <<inflight, scenario, users, patients, doctors, staff, appointments, nextId>>

\* ============================================================ appointments
AppointmentStatuses == {"Scheduled", "Confirmed", "Completed", "Cancelled", "No-Show"}

\* Days are counted from today; the requests book for today.
Today == 0
Dates == {0}

\* appointmentSchema: the paths the model keeps, with their defaults (0 where
\* a required reference is not given, -1 for a missing date).
AppointmentDefaults ==
  [hospitalId |-> "", patientId |-> 0, doctorId |-> 0, appointmentDate |-> -1,
   status |-> "Scheduled"]

\* A schema that accepts every appointment.
AppointmentValidAlways(doc) == TRUE

\* Schema validation of an Appointment document or of an update's paths.
AppointmentValid(doc) ==
  /\ Has(doc, "hospitalId") => doc.hospitalId # ""
  /\ Has(doc, "patientId") => doc.patientId # 0
  /\ Has(doc, "doctorId") => doc.doctorId # 0
  /\ Has(doc, "appointmentDate") => doc.appointmentDate # -1
  /\ Has(doc, "status") => doc.status \in AppointmentStatuses

\* .populate('patientId', 'firstName lastName email phone'): the Patient with
\* that _id, whatever its tenant, or null.
PopulatePatient(doc) ==
  Spread(doc, [patientId |-> IF doc.patientId \in DOMAIN patients
                 THEN [_id |-> doc.patientId,
                       firstName |-> patients[doc.patientId].firstName]
                 ELSE Null])

\* .populate('doctorId', 'specialization department')
PopulateDoctor(doc) ==
  Spread(doc, [doctorId |-> IF doc.doctorId \in DOMAIN doctors
                              THEN [_id |-> doc.doctorId] ELSE Null])

PopulateAppointment(doc) == PopulateDoctor(PopulatePatient(doc))

\* The bodies of POST /api/appointments and of PUT /api/appointments/:id.
AppointmentBodies ==
  {NoFields} \cup
  {Spread([patientId |-> p, doctorId |-> d, appointmentDate |-> day], x) :
     p \in PatientIds, d \in DoctorIds, day \in Dates,
     x \in {NoFields, [status |-> "Completed"]}
           \cup {[hospitalId |-> t] : t \in Tenants}}
AppointmentUpdates ==
  {[status |-> st] : st \in AppointmentStatuses \cup {"Bogus"}}
    \cup {[hospitalId |-> t] : t \in Tenants}

\* The status parameter of GET /api/appointments.
AppointmentQueries ==
  {Spread(pq, st) : pq \in PageQueries, st \in {NoFields, [status |-> "Cancelled"]}}

\* The filter object of GET /api/appointments applied to one document.
AppointmentQueryMatches(doc, hospitalId, query) ==
  /\ doc.hospitalId = hospitalId
  /\ Has(query, "status") => doc.status = query.status

\* The appointments of ids, populated, in the order of
\* .sort({appointmentDate: 1, appointmentTime: 1}): all dates of the model are
\* equal, which leaves the store's own order.
AppointmentList(ids) ==
  LET sorted == SortAsc(ids)
  IN [k \in 1..Len(sorted) |-> PopulateAppointment(Doc(appointments, sorted[k]))]

\* GET /api/appointments
GetAppointments ==
  /\ last = Idle
  /\ scenario = "appointments"
  /\ \E u \in DOMAIN users, query \in AppointmentQueries :
       LET ctx == Auth(u)
           req == Request("GET /api/appointments", ctx, NoFields, query, NoFields)
           matches == AppointmentList({i \in DOMAIN appointments :
                        AppointmentQueryMatches(appointments[i], ctx.hospitalId, query)})
       IN last' = Exchange(req, ListResponse(matches, query))
  /\ UNCHANGED <<inflight, scenario, users, patients, doctors, staff, appointments, nextId>>

\* const appointmentData = {...req.body, hospitalId: req.hospitalId, createdBy: req.user._id}
AppointmentData(body, ctx) == Spread(body, [hospitalId |-> ctx.hospitalId])

\* authorize(...) of the route below
PostAppointmentRoles == {"doctor", "hospitalOwner", "staff"}

\* POST /api/appointments
PostAppointment ==
  /\ last = Idle
  /\ scenario = "appointments"
  /\ nextId.appointments < MaxAppointments
  /\ \E u \in DOMAIN users, body \in AppointmentBodies :
       LET ctx == Auth(u)
           req == Request("POST /api/appointments", ctx, NoFields, NoFields, body)
           id == nextId.appointments + 1
           appointment == NewDoc(AppointmentDefaults, AppointmentData(body, ctx))
       IN IF ~Authorize(PostAppointmentRoles, ctx)
            THEN /\ last' = Exchange(req, Forbidden)
                 /\ UNCHANGED <<appointments, nextId>>
          ELSE IF ~AppointmentValid(appointment)
            THEN /\ last' = Exchange(req, ServerError)
                 /\ UNCHANGED <<appointments, nextId>>
          ELSE /\ appointments' = Put(appointments, id, appointment)
               /\ nextId' = [nextId EXCEPT !.appointments = id]
               /\ last' = Exchange(req, Created("Appointment created successfully",
                            PopulateAppointment(Spread(appointment, [_id |-> id]))))
  /\ UNCHANGED <<inflight, scenario, users, patients, doctors, staff>>

\* authorize(...) of the route below
PutAppointmentRoles == {"doctor", "hospitalOwner", "staff"}

\* PUT /api/appointments/:id
PutAppointment ==
  /\ last = Idle
  /\ scenario = "appointments"
  /\ \E u \in DOMAIN users, id \in AppointmentIds, body \in AppointmentUpdates :
       LET ctx == Auth(u)
           req == Request("PUT /api/appointments/:id", ctx, [id |-> id], NoFields, body)
           found == FindOne(appointments, id, ctx.hospitalId)
           updated == ApplyUpdate(appointments[id], body)
       IN IF ~Authorize(PutAppointmentRoles, ctx)
            THEN /\ last' = Exchange(req, Forbidden)
                 /\ UNCHANGED appointments
          ELSE IF ~AppointmentValid(body)
            THEN /\ last' = Exchange(req, ServerError)
                 /\ UNCHANGED appointments
          ELSE IF found = {}
            THEN /\ last' = Exchange(req, NotFound("Appointment not found"))
                 /\ UNCHANGED appointments
          ELSE /\ appointments' = Put(appointments, id, updated)
               /\ last' = Exchange(req, Ok([message |-> "Appointment updated successfully",
                              data |-> PopulateAppointment(Spread(updated, [_id |-> id]))]))
  /\ UNCHANGED <<inflight, scenario, users, patients, doctors, staff, nextId>>

\* An update that marks the appointment as missed instead of cancelling it.
CancelUpdateNoShow == [status |-> "No-Show"]

\* The update object of the cancelling findOneAndUpdate.
CancelUpdate == [status |-> "Cancelled"]

\* authorize(...) of the route below
DeleteAppointmentRoles == {"doctor", "hospitalOwner", "staff"}

\* DELETE /api/appointments/:id
DeleteAppointment ==
  /\ last = Idle
  /\ scenario = "appointments"
  /\ \E u \in DOMAIN users, id \in AppointmentIds :
       LET ctx == Auth(u)
           req == Request("DELETE /api/appointments/:id", ctx, [id |-> id], NoFields, NoFields)
           found == FindOne(appointments, id, ctx.hospitalId)
           updated == ApplyUpdate(appointments[id], CancelUpdate)
       IN IF ~Authorize(DeleteAppointmentRoles, ctx)
            THEN /\ last' = Exchange(req, Forbidden)
                 /\ UNCHANGED appointments
          ELSE IF found = {}
            THEN /\ last' = Exchange(req, NotFound("Appointment not found"))
                 /\ UNCHANGED appointments
          ELSE /\ appointments' = Put(appointments, id, updated)
               /\ last' = Exchange(req, Ok([message |-> "Appointment cancelled successfully",
                                            data |-> Spread(updated, [_id |-> id])]))
  /\ UNCHANGED <<inflight, scenario, users, patients, doctors, staff, nextId>>

\* authorize(...) of the route below
GetDoctorAppointmentsRoles == {"doctor", "hospitalOwner", "staff"}

\* GET /api/appointments/doctor/:doctorId
GetDoctorAppointments ==
  /\ last = Idle
  /\ scenario = "appointments"
  /\ \E u \in DOMAIN users, doctorId \in DoctorIds :
       LET ctx == Auth(u)
           req == Request("GET /api/appointments/doctor/:doctorId", ctx,
                          [doctorId |-> doctorId], NoFields, NoFields)
           ids == SortAsc({i \in DOMAIN appointments :
                     /\ appointments[i].doctorId = doctorId
                     /\ appointments[i].hospitalId = ctx.hospitalId})
       IN last' = Exchange(req,
                    IF ~Authorize(GetDoctorAppointmentsRoles, ctx) THEN Forbidden
                    ELSE Ok([data |-> [k \in 1..Len(ids) |->
                                         PopulatePatient(Doc(appointments, ids[k]))]]))
  /\ UNCHANGED <<inflight, scenario, users, patients, doctors, staff, appointments, nextId>>

\* GET /api/appointments/upcoming
GetUpcomingAppointments ==
  /\ last = Idle
  /\ scenario = "appointments"
  /\ Dispatch(Routers.appointments, "GET", <<"upcoming">>) = "GET /api/appointments/upcoming"
  /\ \E u \in DOMAIN users :
       LET ctx == Auth(u)
           req == Request("GET /api/appointments/upcoming", ctx, NoFields, NoFields,
                          NoFields)
           matches == AppointmentList({i \in DOMAIN appointments :
                        /\ appointments[i].hospitalId = ctx.hospitalId
                        /\ appointments[i].appointmentDate >= Today
                        /\ appointments[i].status \in {"Scheduled", "Confirmed"}})
       IN last' = Exchange(req, Ok([data |-> Window(matches, 0, 10)]))
  /\ UNCHANGED <<inflight, scenario, users, patients, doctors, staff, appointments, nextId>>

\* ================================================================ dashboard
\* Model.countDocuments(filter)
CountDocuments(coll, matching) == Cardinality({i \in DOMAIN coll : coll[i] \in matching})

\* GET /api/dashboard/stats
GetDashboardStats ==
  /\ last = Idle
  /\ scenario = "appointments"
  /\ \E u \in DOMAIN users :
       LET ctx == Auth(u)
           hospitalId == ctx.hospitalId
           req == Request("GET /api/dashboard/stats", ctx, NoFields, NoFields, NoFields)
           Of(coll) == {coll[i] : i \in DOMAIN coll}
       IN last' = Exchange(req, Ok([data |->
            [totalPatients |->
               CountDocuments(patients,
                 {d \in Of(patients) : d.hospitalId = hospitalId}),
             totalDoctors |->
               CountDocuments(doctors,
                 {d \in Of(doctors) : d.hospitalId = hospitalId}),
             totalStaff |->
               CountDocuments(staff,
                 {d \in Of(staff) : d.hospitalId = hospitalId /\ d.status = "active"}),
             todayAppointments |->
               CountDocuments(appointments,
                 {d \in Of(appointments) : /\ d.hospitalId = hospitalId
                                           /\ d.appointmentDate = Today}),
             upcomingAppointments |->
               CountDocuments(appointments,
                 {d \in Of(appointments) : /\ d.hospitalId = hospitalId
                                           /\ d.appointmentDate > Today
                                           /\ d.status \in {"Scheduled", "Confirmed"}}),
             completedAppointments |->
               CountDocuments(appointments,
                 {d \in Of(appointments) : /\ d.hospitalId = hospitalId
                                           /\ d.status = "Completed"})]]))
  /\ UNCHANGED <<inflight, scenario, users, patients, doctors, staff, appointments, nextId>>

\* .select('firstName lastName email phone createdAt')
SelectRecent(doc) == [_id |-> doc._id, firstName |-> doc.firstName]

\* GET /api/dashboard/recent-patients
GetRecentPatients ==
  /\ last = Idle
  /\ scenario = "appointments"
  /\ \E u \in DOMAIN users :
       LET ctx == Auth(u)
           req == Request("GET /api/dashboard/recent-patients", ctx, NoFields,
                          NoFields, NoFields)
           ids == SortDesc({i \in DOMAIN patients :
                              patients[i].hospitalId = ctx.hospitalId})
           found == [k \in 1..Len(ids) |-> SelectRecent(Doc(patients, ids[k]))]
       IN last' = Exchange(req, Ok([data |-> Window(found, 0, 5)]))
  /\ UNCHANGED <<inflight, scenario, users, patients, doctors, staff, appointments, nextId>>

\* GET /api/dashboard/today-appointments
GetTodayAppointments ==
  /\ last = Idle
  /\ scenario = "appointments"
  /\ \E u \in DOMAIN users :
       LET ctx == Auth(u)
           req == Request("GET /api/dashboard/today-appointments", ctx, NoFields,
                          NoFields, NoFields)
           matches == AppointmentList({i \in DOMAIN appointments :
                        /\ appointments[i].hospitalId = ctx.hospitalId
                        /\ appointments[i].appointmentDate = Today})
       IN last' = Exchange(req, Ok([data |-> Window(matches, 0, 10)]))
  /\ UNCHANGED <<inflight, scenario, users, patients, doctors, staff, appointments, nextId>>

\* GET /api/dashboard/appointment-trends: the tenant's appointments of the
\* last seven days, counted by day, the days ascending.
GetAppointmentTrends ==
  /\ last = Idle
  /\ scenario = "appointments"
  /\ \E u \in DOMAIN users :
       LET ctx == Auth(u)
           req == Request("GET /api/dashboard/appointment-trends", ctx, NoFields,
                          NoFields, NoFields)
           matched == {i \in DOMAIN appointments :
                         /\ appointments[i].hospitalId = ctx.hospitalId
                         /\ appointments[i].appointmentDate >= Today - 7}
           days == SortAsc({appointments[i].appointmentDate : i \in matched})
       IN last' = Exchange(req, Ok([data |-> [k \in 1..Len(days) |->
            [_id |-> days[k],
             count |-> Cardinality({i \in matched :
                                      appointments[i].appointmentDate = days[k]})]]]))
  /\ UNCHANGED <<inflight, scenario, users, patients, doctors, staff, appointments, nextId>>

\* {$sort: {count: -1}}: the orders of keys with counts descending; the order
\* among equal counts is the store's to choose.
SortByCountDesc(keys, count) ==
  {f \in [1..Cardinality(keys) -> keys] :
     /\ \A i, j \in DOMAIN f : i # j => f[i] # f[j]
     /\ \A i, j \in DOMAIN f : i < j => count[f[i]] >= count[f[j]]}

\* authorize(...) of the route below
GetDoctorWorkloadRoles == {"hospitalOwner", "staff"}

\* GET /api/dashboard/doctor-workload: the tenant's appointments grouped by
\* doctorId, each group joined by $lookup with the doctors document of that
\* _id (the lookup names no hospitalId) and dropped by $unwind when there is
\* none; a row's specialization is read from the joined document.
GetDoctorWorkload ==
  /\ last = Idle
  /\ scenario = "appointments"
  /\ \E u \in DOMAIN users :
       LET ctx == Auth(u)
           req == Request("GET /api/dashboard/doctor-workload", ctx, NoFields,
                          NoFields, NoFields)
           matched == {i \in DOMAIN appointments :
                         /\ appointments[i].hospitalId = ctx.hospitalId
                         /\ appointments[i].appointmentDate >= Today - 30
                         /\ appointments[i].status \in
                              {"Completed", "Confirmed", "Scheduled"}}
           Count(d) == Cardinality({i \in matched : appointments[i].doctorId = d})
           joined == {d \in {appointments[i].doctorId : i \in matched} :
                        d \in DOMAIN doctors}
       IN IF ~Authorize(GetDoctorWorkloadRoles, ctx)
            THEN last' = Exchange(req, Forbidden)
            ELSE \E order \in SortByCountDesc(joined, [d \in joined |-> Count(d)]) :
                   last' = Exchange(req, Ok([data |->
                     Window([k \in DOMAIN order |->
                               [_id |-> order[k], appointmentCount |-> Count(order[k])]],
                            0, 10)]))
  /\ UNCHANGED <<inflight, scenario, users, patients, doctors, staff, appointments, nextId>>

\* authorize(...) of the route below
GetDepartmentStatsRoles == {"hospitalOwner", "staff"}

\* The active staff of a tenant in a department.
ActiveStaff(hospitalId, department) ==
  {i \in DOMAIN staff : /\ staff[i].hospitalId = hospitalId
                        /\ staff[i].status = "active"
                        /\ staff[i].department = department}

\* GET /api/dashboard/department-stats
GetDepartmentStats ==
  /\ last = Idle
  /\ scenario = "staff"
  /\ \E u \in DOMAIN users :
       LET ctx == Auth(u)
           req == Request("GET /api/dashboard/department-stats", ctx, NoFields,
                          NoFields, NoFields)
           Count(d) == Cardinality(ActiveStaff(ctx.hospitalId, d))
           groups == {staff[i].department :
                        i \in {j \in DOMAIN staff : /\ staff[j].hospitalId = ctx.hospitalId
                                                    /\ staff[j].status = "active"}}
       IN IF ~Authorize(GetDepartmentStatsRoles, ctx)
            THEN last' = Exchange(req, Forbidden)
            ELSE \E order \in SortByCountDesc(groups, [d \in groups |-> Count(d)]) :
                   last' = Exchange(req, Ok([data |->
                     [k \in DOMAIN order |->
                        [_id |-> order[k], count |-> Count(order[k])]]]))
  /\ UNCHANGED <<inflight, scenario, users, patients, doctors, staff, appointments, nextId>>


\* ==================================== prescriptions, reminders and reports
\* These handlers answer a fixed body and touch no collection.
ComingSoon(message, data) == Ok([message |-> message, data |-> data])
ComingSoonCreated(message) ==
  Json(201, [success |-> TRUE, message |-> message, data |-> NoFields])

\* A handler of these routers behind auth and, where roles are listed,
\* authorize(roles).
Placeholder(route, gated, roles, res) ==
  /\ last = Idle
  /\ scenario = "records"
  /\ \E u \in DOMAIN users :
       LET ctx == Auth(u)
           req == Request(route, ctx, NoFields, NoFields, NoFields)
       IN last' = Exchange(req, IF gated /\ ~Authorize(roles, ctx) THEN Forbidden ELSE res)
  /\ UNCHANGED <<inflight, scenario, users, patients, doctors, staff, appointments, nextId>>

\* GET /api/prescriptions
GetPrescriptions ==
  Placeholder("GET /api/prescriptions", FALSE, {},
              ComingSoon("Prescriptions endpoint - Coming soon", <<>>))

PostPrescriptionRoles == {"doctor"}

\* POST /api/prescriptions
PostPrescription ==
  Placeholder("POST /api/prescriptions", TRUE, PostPrescriptionRoles,
              ComingSoonCreated("Prescription creation - Coming soon"))

\* GET /api/reminders
GetReminders ==
  Placeholder("GET /api/reminders", FALSE, {},
              ComingSoon("Reminders endpoint - Coming soon", <<>>))

PostReminderRoles == {"doctor", "hospitalOwner", "staff"}

\* POST /api/reminders
PostReminder ==
  Placeholder("POST /api/reminders", TRUE, PostReminderRoles,
              ComingSoonCreated("Reminder creation - Coming soon"))

GetReportsRoles == {"doctor", "hospitalOwner", "staff"}

\* GET /api/reports
GetReports ==
  Placeholder("GET /api/reports", TRUE, GetReportsRoles,
              ComingSoon("Reports endpoint - Coming soon", <<>>))

PostReportRoles == {"doctor", "hospitalOwner"}

\* POST /api/reports
PostReport ==
  Placeholder("POST /api/reports", TRUE, PostReportRoles,
              ComingSoonCreated("Report generation - Coming soon"))


\* =========================================================== authentication
\* The routes of each router, under the path the router is mounted on.
PatientRoutes ==
  {"GET /api/patients", "GET /api/patients/:id", "POST /api/patients",
   "PUT /api/patients/:id", "DELETE /api/patients/:id", "GET /api/patients/recent"}
DoctorRoutes ==
  {"GET /api/doctors", "GET /api/doctors/:id", "POST /api/doctors",
   "PUT /api/doctors/:id", "GET /api/doctors/available"}
StaffRoutes ==
  {"GET /api/staff", "POST /api/staff", "PUT /api/staff/:id",
   "DELETE /api/staff/:id", "GET /api/staff/departments",
   "GET /api/dashboard/department-stats"}
AppointmentRoutes ==
  {"GET /api/appointments", "POST /api/appointments", "PUT /api/appointments/:id",
   "DELETE /api/appointments/:id", "GET /api/appointments/upcoming",
   "GET /api/appointments/doctor/:doctorId"}
DashboardRoutes ==
  {"GET /api/dashboard/stats", "GET /api/dashboard/recent-patients",
   "GET /api/dashboard/today-appointments", "GET /api/dashboard/appointment-trends",
   "GET /api/dashboard/doctor-workload"}
RecordRoutes ==
  {"GET /api/prescriptions", "POST /api/prescriptions", "GET /api/reminders",
   "POST /api/reminders", "GET /api/reports", "POST /api/reports"}

\* The routes a behaviour of each scenario sends its requests to.
RoutesOf(sc) ==
  CASE sc = "patients" -> PatientRoutes
    [] sc = "doctors" -> DoctorRoutes
    [] sc = "staff" -> StaffRoutes
    [] sc = "appointments" -> AppointmentRoutes \cup DashboardRoutes
    [] sc = "records" -> RecordRoutes

\* The middleware each route declares before its handler, in order.
AuthorizedRoutes ==
  {"PUT /api/patients/:id", "DELETE /api/patients/:id",
   "POST /api/doctors", "PUT /api/doctors/:id",
   "GET /api/staff", "POST /api/staff", "PUT /api/staff/:id", "DELETE /api/staff/:id",
   "POST /api/appointments", "PUT /api/appointments/:id",
   "DELETE /api/appointments/:id", "GET /api/appointments/doctor/:doctorId",
   "GET /api/dashboard/department-stats", "GET /api/dashboard/doctor-workload",
   "POST /api/prescriptions", "POST /api/reminders", "GET /api/reports",
   "POST /api/reports"}

\* The chain with GET /api/dashboard/stats declared without auth.
MiddlewareOpenStats(route) ==
  CASE route = "GET /api/dashboard/stats" -> <<>>
    [] route = "POST /api/patients" -> <<"auth", "authorize", "body">>
    [] route \in AuthorizedRoutes -> <<"auth", "authorize">>
    [] OTHER -> <<"auth">>

Middleware(route) ==
  CASE route = "POST /api/patients" -> <<"auth", "authorize", "body">>
    [] route \in AuthorizedRoutes -> <<"auth", "authorize">>
    [] OTHER -> <<"auth">>

\* What a request may carry instead of a valid bearer token.
BadTokens ==
  {[kind |-> k] : k \in {"absent", "malformed", "badSignature", "expired"}}

\* auth's answers to a request it does not let through.
Unauthorized == Json(401, [success |-> FALSE, message |-> "Not authorized"])
TenantMismatch == Json(403, [success |-> FALSE, message |-> "Access denied"])

\* A request that auth attached no identity to: its token and the tenant its
\* host resolves to.
Unidentified(route, token, host) ==
  Spread(Request(route, [user |-> [_id |-> 0, role |-> "none"], hospitalId |-> "none"],
                 NoFields, NoFields, NoFields),
         [token |-> token, host |-> host])

\* A handler that runs with no identity attached reads req.hospitalId as
\* undefined; what it answers is not auth's rejection.
Unguarded == Json(200, [success |-> TRUE])

\* A request without a valid token, to any route.
\* What a request without a valid token may still carry: a body, and the role
\* that the rejected token claimed.
Unverified(route) ==
  IF route = "POST /api/patients"
    THEN {[body |-> [firstName |-> n], claim |-> r] :
            n \in {"ann", "x"}, r \in {"hospitalOwner", "patient"}}
    ELSE {[body |-> NoFields, claim |-> "none"]}

RejectToken ==
  /\ last = Idle
  /\ \E route \in RoutesOf(scenario), token \in BadTokens, host \in Tenants :
     \E sent \in Unverified(route) :
       last' = Exchange(Spread(Unidentified(route, token, host), sent),
                        IF Middleware(route) # <<>> /\ Head(Middleware(route)) = "auth"
                          THEN Unauthorized ELSE Unguarded)
  /\ UNCHANGED <<inflight, scenario, users, patients, doctors, staff, appointments, nextId>>

\* A request with the valid token of user u, sent to the host of another
\* tenant than the token's.
RejectTenant ==
  /\ last = Idle
  /\ \E route \in RoutesOf(scenario), u \in DOMAIN users, host \in Tenants :
       /\ users[u].hospitalId # host
       /\ last' = Exchange(Unidentified(route, [kind |-> "valid", user |-> u,
                                                hospitalId |-> users[u].hospitalId],
                                        host),
                           IF Middleware(route) # <<>> /\ Head(Middleware(route)) = "auth"
                             THEN TenantMismatch ELSE Unguarded)
  /\ UNCHANGED <<inflight, scenario, users, patients, doctors, staff, appointments, nextId>>

\* ============================================================ specification
EmptyCollection == <<>>

\* What the appointments router starts with: one patient of each tenant (user 1
\* and user 2 posted {firstName: "ann"}) and the doctor profile of user 3.
SeedPatients ==
  <<[hospitalId |-> "h1", firstName |-> "ann", status |-> "Active"],
    [hospitalId |-> "h2", firstName |-> "ann", status |-> "Active"]>>
SeedDoctors == <<[userId |-> 3, hospitalId |-> "h1", status |-> "Available"]>>

Init ==
  /\ scenario \in Scenarios
  /\ users = RegisteredUsers
  /\ patients = IF scenario = "appointments" THEN SeedPatients ELSE EmptyCollection
  /\ doctors = IF scenario = "appointments" THEN SeedDoctors ELSE EmptyCollection
  /\ staff = EmptyCollection
  /\ appointments = EmptyCollection
  /\ nextId = [users |-> Len(RegisteredUsers), patients |-> Len(patients),
               doctors |-> Len(doctors), staff |-> 0, appointments |-> 0]
  /\ last = Idle
  /\ inflight = <<>>

\* The response has been sent; the listener takes the next request.
NextRequest ==
  /\ last # Idle
  /\ last' = Idle
  /\ UNCHANGED <<inflight, scenario, users, patients, doctors, staff, appointments, nextId>>

Next ==
  \/ NextRequest
  \/ GetPatients
  \/ GetPatient
  \/ PostPatient
  \/ PutPatient
  \/ DeletePatient
  \/ GetDoctors
  \/ GetDoctor
  \/ PostDoctor
  \/ PutDoctor
  \/ GetStaff
  \/ PostStaff
  \/ PutStaff
  \/ DeleteStaff
  \/ GetAppointments
  \/ PostAppointment
  \/ PutAppointment
  \/ DeleteAppointment
  \/ GetDoctorAppointments
  \/ GetUpcomingAppointments
  \/ GetStaffDepartments
  \/ GetDashboardStats
  \/ GetRecentPatients
  \/ GetTodayAppointments
  \/ GetAppointmentTrends
  \/ GetDepartmentStats
  \/ GetDoctorWorkload
  \/ GetPrescriptions
  \/ PostPrescription
  \/ GetReminders
  \/ PostReminder
  \/ GetReports
  \/ PostReport
  \/ GetPatientsRecent
  \/ GetDoctorsAvailable
  \/ RejectToken
  \/ RejectTenant

Spec == Init /\ [][Next]_vars

\* ====================================================== requests in parallel
\* Node serves a second request while the first one awaits the store.  Each
\* store call (find, countDocuments, save, findOneAndUpdate, findOneAndDelete)
\* is one atomic step; two requests interleave between their store calls.
SeedAppointments ==
  <<[hospitalId |-> "h1", patientId |-> 1, doctorId |-> 1, appointmentDate |-> Today,
     status |-> "Scheduled"]>>

InitInterleaved ==
  /\ scenario \in {"appointments", "patients", "staff"}
  /\ users = RegisteredUsers
  /\ patients = SeedPatients
  /\ doctors = SeedDoctors
  /\ staff = EmptyCollection
  /\ appointments = IF scenario = "appointments" THEN SeedAppointments
                                                ELSE EmptyCollection
  /\ nextId = [users |-> Len(RegisteredUsers), patients |-> Len(patients),
               doctors |-> Len(doctors), staff |-> 0,
               appointments |-> Len(appointments)]
  /\ last = Idle
  /\ inflight = [k \in {1, 2} |->
                   [req |-> NoRequest, pc |-> "free", res |-> Idle.res, read |-> <<>>]]

\* The requests that user u may send: updates and cancellations of an
\* appointment, the creation of a staff member, or list, create and delete
\* requests on patients.
InterleavedRequests(u) ==
  IF scenario = "staff"
    THEN {Request("POST /api/staff", Auth(u), NoFields, NoFields,
                  [userData |-> [email |-> "s@x"],
                   staffData |-> [department |-> "Nursing", employeeId |-> e]]) :
            e \in EmployeeIds}
  ELSE IF scenario = "appointments"
    THEN {Request("PUT /api/appointments/:id", Auth(u), [id |-> id], NoFields, body) :
            id \in AppointmentIds,
            body \in AppointmentUpdates \cup {[doctorId |-> 2]}}
         \cup {Request("DELETE /api/appointments/:id", Auth(u), [id |-> id],
                       NoFields, NoFields) : id \in AppointmentIds}
    ELSE {Request("GET /api/patients", Auth(u), NoFields, query, NoFields) :
            query \in {NoFields, [limit |-> 1], [page |-> 2, limit |-> 1]}}
         \cup {Request("POST /api/patients", Auth(u), NoFields, NoFields,
                       [firstName |-> "ann"])}
         \cup {Request("DELETE /api/patients/:id", Auth(u), [id |-> id],
                       NoFields, NoFields) : id \in PatientIds}

\* A request arrives and its handler starts.
Receive ==
  \E k \in DOMAIN inflight, u \in DOMAIN users :
    \E req \in InterleavedRequests(u) :
      /\ inflight[k].pc = "free"
      /\ inflight' = [inflight EXCEPT ![k] = [req |-> req, pc |-> "store",
                                              res |-> Idle.res, read |-> <<>>]]
      /\ UNCHANGED <<scenario, users, patients, doctors, staff, appointments, nextId,
                     last>>

\* A findOneAndUpdate that writes the update onto the document as it was
\* first loaded.
FindOneAndUpdateLoaded(coll, id, hospitalId, update) ==
  IF FindOne(coll, id, hospitalId) = {} THEN coll
  ELSE Put(coll, id, ApplyUpdate(SeedAppointments[id], update))

\* findOneAndUpdate: the store applies the update to the document it holds, in
\* one step.
FindOneAndUpdate(coll, id, hospitalId, update) ==
  IF FindOne(coll, id, hospitalId) = {} THEN coll
  ELSE Put(coll, id, ApplyUpdate(coll[id], update))

\* The handler of a writing request makes its next store call; after its last
\* one it answers.  POST /api/staff makes two: user.save(), then staff.save().
WriteStep ==
  \E k \in DOMAIN inflight :
    LET req == inflight[k].req
        ctx == [user |-> [_id |-> req.user, role |-> req.role],
                hospitalId |-> req.hospitalId]
        Answer(res) == [inflight EXCEPT ![k].pc = "done", ![k].res = res]
    IN /\ inflight[k].pc \in {"store", "profile"}
       /\ \/ /\ req.route \in {"PUT /api/appointments/:id", "DELETE /api/appointments/:id"}
             /\ LET put == req.route = "PUT /api/appointments/:id"
                    id == req.params.id
                    roles == IF put THEN PutAppointmentRoles ELSE DeleteAppointmentRoles
                    update == IF put THEN req.body ELSE CancelUpdate
                    after == FindOneAndUpdate(appointments, id, req.hospitalId, update)
                IN IF ~Authorize(roles, ctx)
                     THEN /\ inflight' = Answer(Forbidden)
                          /\ UNCHANGED appointments
                   ELSE IF put /\ ~AppointmentValid(update)
                     THEN /\ inflight' = Answer(ServerError)
                          /\ UNCHANGED appointments
                   ELSE IF FindOne(appointments, id, req.hospitalId) = {}
                     THEN /\ inflight' = Answer(NotFound("Appointment not found"))
                          /\ UNCHANGED appointments
                   ELSE /\ appointments' = after
                        /\ inflight' = Answer(Ok(
                             [message |-> IF put THEN "Appointment updated successfully"
                                                 ELSE "Appointment cancelled successfully",
                              data |-> IF put THEN PopulateAppointment(Doc(after, id))
                                              ELSE Doc(after, id)]))
             /\ UNCHANGED <<users, patients, staff, nextId>>
          \/ /\ req.route = "POST /api/patients"
             /\ LET id == nextId.patients + 1
                    patient == NewDoc(PatientDefaults, PatientData(req.body, ctx))
                IN IF ~Authorize(PostPatientRoles, ctx)
                     THEN /\ inflight' = Answer(Forbidden)
                          /\ UNCHANGED <<patients, nextId>>
                   ELSE IF PatientValidationErrors(req.body) # <<>>
                     THEN /\ inflight' = Answer(Json(400, [success |-> FALSE,
                                 message |-> "Validation errors",
                                 errors |-> PatientValidationErrors(req.body)]))
                          /\ UNCHANGED <<patients, nextId>>
                   ELSE IF ~PatientValid(patient)
                     THEN /\ inflight' = Answer(ServerError)
                          /\ UNCHANGED <<patients, nextId>>
                   ELSE /\ patients' = Put(patients, id, patient)
                        /\ nextId' = [nextId EXCEPT !.patients = id]
                        /\ inflight' = Answer(Created("Patient created successfully",
                                                      Spread(patient, [_id |-> id])))
             /\ UNCHANGED <<users, staff, appointments>>
          \/ /\ req.route = "DELETE /api/patients/:id"
             /\ IF ~Authorize(DeletePatientRoles, ctx)
                  THEN /\ inflight' = Answer(Forbidden)
                       /\ UNCHANGED patients
                ELSE IF FindOne(patients, req.params.id, req.hospitalId) = {}
                  THEN /\ inflight' = Answer(NotFound("Patient not found"))
                       /\ UNCHANGED patients
                ELSE /\ patients' = Remove(patients, req.params.id)
                     /\ inflight' = Answer(Ok([message |-> "Patient deleted successfully"]))
             /\ UNCHANGED <<users, staff, appointments, nextId>>
          \/ /\ req.route = "POST /api/staff"
             /\ inflight[k].pc = "store"
             /\ LET userAccountData == UserAccountData(req.body.userData, ctx)
                    userId == nextId.users + 1
                IN IF ~Authorize(PostStaffRoles, ctx)
                     THEN /\ inflight' = Answer(Forbidden)
                          /\ UNCHANGED <<users, nextId>>
                   ELSE IF ~UserValid(userAccountData)
                     THEN /\ inflight' = Answer(ServerError)
                          /\ UNCHANGED <<users, nextId>>
                   ELSE /\ users' = Put(users, userId, NewDoc(UserDefaults, userAccountData))
                        /\ nextId' = [nextId EXCEPT !.users = userId]
                        /\ inflight' = [inflight EXCEPT ![k].pc = "profile",
                                                        ![k].read = <<userId>>]
             /\ UNCHANGED <<patients, staff, appointments>>
          \/ /\ req.route = "POST /api/staff"
             /\ inflight[k].pc = "profile"
             /\ LET userId == inflight[k].read[1]
                    id == nextId.staff + 1
                    profile == Touch(NewDoc(StaffDefaults,
                                   StaffProfileData(req.body.staffData, userId, ctx)),
                                     Clock.created)
                IN IF ~StaffValid(profile) \/ StaffDuplicate(id, profile)
                     THEN /\ inflight' = Answer(ServerError)
                          /\ UNCHANGED <<staff, nextId>>
                   ELSE /\ staff' = Put(staff, id, profile)
                        /\ nextId' = [nextId EXCEPT !.staff = id]
                        /\ inflight' = Answer(Created("Staff member created successfully",
                             Spread(profile, [_id |-> id,
                               userId |-> [_id |-> userId, role |-> users[userId].role]])))
             /\ UNCHANGED <<users, patients, appointments>>
       /\ UNCHANGED <<scenario, doctors, last>>

\* GET /api/patients, first store call: find(query).sort().skip().limit()
\* reads the page; the store refuses a negative skip.
FindStep ==
  \E k \in DOMAIN inflight :
    LET req == inflight[k].req
        limit == ParseLimit(req.query)
        skip == SkipOf(ParsePage(req.query), limit)
    IN /\ inflight[k].pc = "store"
       /\ req.route = "GET /api/patients"
       /\ inflight' =
            IF skip < 0
              THEN [inflight EXCEPT ![k].pc = "done", ![k].res = ServerError]
              ELSE [inflight EXCEPT ![k].pc = "count",
                      ![k].read = Window(PatientFind(req.hospitalId, req.query),
                                         skip, limit)]
       /\ UNCHANGED <<scenario, users, patients, doctors, staff, appointments, nextId,
                      last>>

\* GET /api/patients, second store call: countDocuments(query) reads the
\* total, and the handler answers with the page read before.
CountStep ==
  \E k \in DOMAIN inflight :
    LET req == inflight[k].req
        total == Len(PatientFind(req.hospitalId, req.query))
    IN /\ inflight[k].pc = "count"
       /\ inflight' = [inflight EXCEPT ![k].pc = "done",
                         ![k].res = Ok([data |-> inflight[k].read,
                                        pagination |-> Pagination(ParsePage(req.query),
                                                         ParseLimit(req.query), total)])]
       /\ UNCHANGED <<scenario, users, patients, doctors, staff, appointments, nextId,
                      last>>

NextInterleaved ==
  \/ Receive
  \/ WriteStep
  \/ FindStep
  \/ CountStep

SpecInterleaved == InitInterleaved /\ [][NextInterleaved]_vars

\* ================================================================== claims
\* What the claims speak of: the store, a request step and its exchange.
Store == <<users, patients, doctors, staff, appointments>>

\* A step that serves a request (last' is its exchange).
RequestStep == last = Idle /\ last' # Idle

CallerTenant(ex) == ex.req.hospitalId

\* The target of a by-id request, if the collection holds it before the step.
TargetHeld(coll, routes) ==
  /\ RequestStep
  /\ last'.req.route \in routes
  /\ last'.req.role \in Roles
  /\ last'.req.params.id \in DOMAIN coll

\* ... and it is stamped with another tenant than the caller's.
CrossTenantTarget(coll, routes) ==
  /\ TargetHeld(coll, routes)
  /\ coll[last'.req.params.id].hospitalId # CallerTenant(last')

PatientByIdRoutes ==
  {"GET /api/patients/:id", "PUT /api/patients/:id", "DELETE /api/patients/:id"}
DoctorByIdRoutes == {"GET /api/doctors/:id", "PUT /api/doctors/:id"}
StaffByIdRoutes == {"PUT /api/staff/:id", "DELETE /api/staff/:id"}
AppointmentByIdRoutes == {"PUT /api/appointments/:id", "DELETE /api/appointments/:id"}

CrossTenantById ==
  \/ CrossTenantTarget(patients, PatientByIdRoutes)
  \/ CrossTenantTarget(doctors, DoctorByIdRoutes)
  \/ CrossTenantTarget(staff, StaffByIdRoutes)
  \/ CrossTenantTarget(appointments, AppointmentByIdRoutes)

\* The roles each gated route lists in its authorize(...) call.
ListedRoles(route) ==
  CASE route \in {"POST /api/patients", "PUT /api/patients/:id",
                  "POST /api/appointments", "PUT /api/appointments/:id",
                  "DELETE /api/appointments/:id",
                  "GET /api/appointments/doctor/:doctorId",
                  "POST /api/reminders", "GET /api/reports"}
         -> {"doctor", "hospitalOwner", "staff"}
    [] route \in {"DELETE /api/patients/:id", "POST /api/staff",
                  "PUT /api/staff/:id", "DELETE /api/staff/:id"}
         -> {"hospitalOwner"}
    [] route \in {"POST /api/doctors", "PUT /api/doctors/:id", "POST /api/reports"}
         -> {"hospitalOwner", "doctor"}
    [] route \in {"GET /api/staff", "GET /api/dashboard/department-stats",
                  "GET /api/dashboard/doctor-workload"}
         -> {"hospitalOwner", "staff"}
    [] route = "POST /api/prescriptions" -> {"doctor"}
    [] OTHER -> Roles

\* The update body of a PUT fails the schema's validators.
UpdateRefused(req) ==
  /\ req.route \in {"PUT /api/patients/:id", "PUT /api/doctors/:id",
                    "PUT /api/staff/:id", "PUT /api/appointments/:id"}
  /\ Has(req.body, "status")
  /\ req.body.status = "Bogus"

PatientListRoutes == {"GET /api/patients", "GET /api/dashboard/recent-patients"}
DoctorListRoutes == {"GET /api/doctors"}
StaffListRoutes == {"GET /api/staff"}
AppointmentListRoutes ==
  {"GET /api/appointments", "GET /api/appointments/doctor/:doctorId",
   "GET /api/appointments/upcoming", "GET /api/dashboard/today-appointments"}
ListRoutes ==
  PatientListRoutes \cup DoctorListRoutes \cup StaffListRoutes
    \cup AppointmentListRoutes
DocRoutes ==
  {"GET /api/patients/:id", "POST /api/patients", "PUT /api/patients/:id",
   "GET /api/doctors/:id", "POST /api/doctors", "PUT /api/doctors/:id",
   "POST /api/staff", "PUT /api/staff/:id", "DELETE /api/staff/:id",
   "POST /api/appointments", "PUT /api/appointments/:id",
   "DELETE /api/appointments/:id"}

\* The documents a response carries in its data field.
DataDocs(ex) ==
  IF ~Has(ex.res.body, "data") THEN {}
  ELSE IF ex.req.route \in ListRoutes
    THEN {ex.res.body.data[k] : k \in DOMAIN ex.res.body.data}
  ELSE IF ex.req.route \in DocRoutes THEN {ex.res.body.data}
  ELSE {}

\* The routes whose response documents carry the populated patient / doctor.
PatientPopulatedRoutes ==
  {"GET /api/appointments", "POST /api/appointments", "PUT /api/appointments/:id",
   "GET /api/appointments/doctor/:doctorId", "GET /api/appointments/upcoming",
   "GET /api/dashboard/today-appointments"}
DoctorPopulatedRoutes ==
  {"GET /api/appointments", "POST /api/appointments", "PUT /api/appointments/:id",
   "GET /api/appointments/upcoming", "GET /api/dashboard/today-appointments"}

\* The doctors whose documents the rows of a doctor-workload response were
\* joined with.
WorkloadDoctors(ex) ==
  IF ex.req.route = "GET /api/dashboard/doctor-workload" /\ Has(ex.res.body, "data")
    THEN {ex.res.body.data[k]._id : k \in DOMAIN ex.res.body.data}
    ELSE {}

\* The tenants whose patient or doctor documents the response pulled in
\* through the references of its appointments.
PulledInTenants(ex) ==
  {patients[d.patientId._id].hospitalId :
     d \in {x \in DataDocs(ex) : ex.req.route \in PatientPopulatedRoutes
                                  /\ x.patientId # Null}}
  \cup
  {doctors[d.doctorId._id].hospitalId :
     d \in {x \in DataDocs(ex) : ex.req.route \in DoctorPopulatedRoutes
                                  /\ x.doctorId # Null}}
  \cup
  {doctors[d].hospitalId : d \in WorkloadDoctors(ex)}

\* The documents of coll that are stamped with another tenant than t.
Foreign(coll, t) == {i \in DOMAIN coll : coll[i].hospitalId # t}
Untouched(coll, collNext, t) ==
  \A i \in Foreign(coll, t) : i \in DOMAIN collNext /\ collNext[i] = coll[i]

\* C2, as claimed: no response to a request under tenant A contains data of a
\* record stamped with tenant B, the patient and doctor documents pulled in
\* through an appointment's references included, and no request under tenant
\* A changes a record stamped with tenant B.
C2_TenantIsolation ==
  [][RequestStep =>
       LET a == CallerTenant(last')
       IN /\ PulledInTenants(last') \subseteq {a}
          /\ Untouched(patients, patients', a)
          /\ Untouched(doctors, doctors', a)
          /\ Untouched(staff, staff', a)
          /\ Untouched(appointments, appointments', a)]_vars

\* ------------------------------------------------------------------- C3
CreateRoutes ==
  {"POST /api/patients", "POST /api/doctors", "POST /api/appointments",
   "POST /api/staff"}

\* The document a 201 response reports, as the store holds it.
CreatedDoc(ex) ==
  LET id == ex.res.body.data._id
  IN CASE ex.req.route = "POST /api/patients" -> patients[id]
       [] ex.req.route = "POST /api/doctors" -> doctors[id]
       [] ex.req.route = "POST /api/appointments" -> appointments[id]
       [] ex.req.route = "POST /api/staff" -> staff[id]

Created201(ex) == ex.req.route \in CreateRoutes /\ ex.res.status = 201

\* C3: after every successful create the record stored for it, and for
\* POST /api/staff also the user account stored for it, carries the tenant of
\* the creating request, whatever hospitalId the body carries.
C3_CreateStampsTenant ==
  Created201(last) =>
    /\ CreatedDoc(last).hospitalId = CallerTenant(last)
    /\ last.req.route = "POST /api/staff" =>
         users[CreatedDoc(last).userId].hospitalId = CallerTenant(last)

\* C3 witness: a patient was created by a request whose body named another
\* tenant.
C3_Witness ==
  /\ Created201(last)
  /\ last.req.route = "POST /api/patients"
  /\ Has(last.req.body, "hospitalId")
  /\ last.req.body.hospitalId # CallerTenant(last)

\* ------------------------------------------------------------------- C4
Stamped(coll, collNext) ==
  \A i \in (DOMAIN coll) \cap (DOMAIN collNext) :
    collNext[i].hospitalId = coll[i].hospitalId

\* C4, as claimed: the hospitalId of a stored record never changes.
C4_TenantImmutable ==
  [][/\ Stamped(users, users')
     /\ Stamped(patients, patients')
     /\ Stamped(doctors, doctors')
     /\ Stamped(staff, staff')
     /\ Stamped(appointments, appointments')]_vars

\* ------------------------------------------------------------------- C5
GatedRoutes ==
  {"POST /api/patients", "PUT /api/patients/:id", "DELETE /api/patients/:id",
   "POST /api/doctors", "PUT /api/doctors/:id",
   "GET /api/staff", "POST /api/staff", "PUT /api/staff/:id", "DELETE /api/staff/:id",
   "POST /api/appointments", "PUT /api/appointments/:id",
   "DELETE /api/appointments/:id", "GET /api/appointments/doctor/:doctorId",
   "POST /api/prescriptions", "POST /api/reminders", "GET /api/reports",
   "POST /api/reports", "GET /api/dashboard/department-stats",
   "GET /api/dashboard/doctor-workload"}

RoleNotListed(ex) ==
  /\ ex.req.route \in GatedRoutes
  /\ ex.req.role \in Roles
  /\ ex.req.role \notin ListedRoles(ex.req.route)

\* C5: a request to a route behind authorize(roles...) by a user whose role
\* is not listed is answered 403 and changes nothing in the store.
C5_GateBeforeHandler ==
  [][(RequestStep /\ RoleNotListed(last')) =>
       /\ last'.res.status = 403
       /\ ~last'.res.body.success
       /\ Store' = Store
       /\ nextId' = nextId]_vars

\* C5 witness: a doctor asked to delete a stored patient of the own tenant and
\* got 403.
C5_Witness ==
  /\ last.req.route = "DELETE /api/patients/:id"
  /\ last.req.role = "doctor"
  /\ last.res.status = 403
  /\ last.req.params.id \in DOMAIN patients
  /\ patients[last.req.params.id].hospitalId = CallerTenant(last)

\* ------------------------------------------------------------------- C6
\* The tenant the store holds for a record that a list route returned.
ListedTenant(route, id) ==
  CASE route \in PatientListRoutes -> patients[id].hospitalId
    [] route \in DoctorListRoutes -> doctors[id].hospitalId
    [] route \in StaffListRoutes -> staff[id].hospitalId
    [] route \in AppointmentListRoutes -> appointments[id].hospitalId

\* The request names no search or status filter and its window holds every
\* match (first page, default limit).
WholeListAsked(ex) ==
  /\ ~Has(ex.req.query, "search")
  /\ ~Has(ex.req.query, "status")
  /\ ~Has(ex.req.query, "limit")
  /\ Has(ex.req.query, "page") => ex.req.query.page \in {0, 1}

\* C6: every record a list endpoint returns carries the caller's tenant,
\* whatever search and status parameters are given, and the unfiltered first
\* page of GET /api/patients holds exactly the patients of the caller's tenant.
C6_ListsOwnTenantOnly ==
  (last.req.route \in ListRoutes /\ last.res.status = 200) =>
    /\ \A d \in DataDocs(last) : ListedTenant(last.req.route, d._id) = CallerTenant(last)
    /\ (last.req.route = "GET /api/patients" /\ WholeListAsked(last)) =>
         {d._id : d \in DataDocs(last)} =
           {i \in DOMAIN patients : patients[i].hospitalId = CallerTenant(last)}

\* C6 witness: a filtered GET /api/patients returned a patient while the
\* store held a patient of another tenant that passes the same filter.
C6_Witness ==
  /\ last.req.route = "GET /api/patients"
  /\ Has(last.req.query, "status")
  /\ DataDocs(last) # {}
  /\ \E i \in DOMAIN patients :
       /\ patients[i].hospitalId # CallerTenant(last)
       /\ patients[i].status = last.req.query.status

\* ------------------------------------------------------------------- C7
TerminalStatuses == {"Cancelled", "Completed", "No-Show"}

\* C7, as claimed: once an appointment's status is Cancelled, Completed or
\* No-Show it never changes again.
C7_TerminalAbsorbing ==
  [][\A i \in DOMAIN appointments :
       appointments[i].status \in TerminalStatuses =>
         /\ i \in DOMAIN appointments'
         /\ appointments'[i].status = appointments[i].status]_vars

\* ------------------------------------------------------------------- C8
StatusEdges ==
  {<<"Scheduled", "Confirmed">>, <<"Confirmed", "Completed">>,
   <<"Scheduled", "Cancelled">>, <<"Confirmed", "Cancelled">>,
   <<"Scheduled", "No-Show">>, <<"Confirmed", "No-Show">>}

\* C8, as claimed: an appointment is created in status Scheduled and its
\* status changes only along the edges of the state machine.
C8_StatusMachine ==
  [][\A i \in DOMAIN appointments' :
       IF i \in DOMAIN appointments
         THEN \/ appointments'[i].status = appointments[i].status
              \/ <<appointments[i].status, appointments'[i].status>> \in StatusEdges
         ELSE appointments'[i].status = "Scheduled"]_vars

\* ------------------------------------------------------------------- C9
PagedRoutes == {"GET /api/patients", "GET /api/appointments", "GET /api/staff"}

\* A paginated list request that passed its route's gate.
PagedRequest(ex) ==
  ex.req.route \in PagedRoutes /\ ex.req.role \in ListedRoles(ex.req.route)

\* C9, as claimed: a requested page of 0 or below is served as page 1.
C9_PageNormalized ==
  (PagedRequest(last) /\ Has(last.req.query, "page") /\ last.req.query.page <= 0) =>
    /\ last.res.status = 200
    /\ last.res.body.pagination.page = 1
    /\ Len(last.res.body.data) =
         Min(last.res.body.pagination.limit, last.res.body.pagination.total)

\* ------------------------------------------------------------------ C10
\* The number of stored records that match a list request.
Matching(ex) ==
  CASE ex.req.route = "GET /api/patients" ->
         Cardinality({i \in DOMAIN patients :
           PatientQueryMatches(patients[i], CallerTenant(ex), ex.req.query)})
    [] ex.req.route = "GET /api/staff" ->
         Cardinality({i \in DOMAIN staff :
           StaffQueryMatches(staff[i], CallerTenant(ex), ex.req.query)})
    [] ex.req.route = "GET /api/appointments" ->
         Cardinality({i \in DOMAIN appointments :
           AppointmentQueryMatches(appointments[i], CallerTenant(ex), ex.req.query)})

\* The request asked for the last page of its N >= 1 matches.
LastPageAsked(ex) ==
  /\ PagedRequest(ex)
  /\ Matching(ex) >= 1
  /\ ParseLimit(ex.req.query) >= 1
  /\ Has(ex.req.query, "page")
  /\ ex.req.query.page = Ceil(Matching(ex), ParseLimit(ex.req.query))

\* What the code does answer on the last page: the remaining records, pages
\* and total.
LastPageNumbers(ex) ==
  LET n == Matching(ex)
      l == ParseLimit(ex.req.query)
  IN /\ ex.res.status = 200
     /\ Len(ex.res.body.data) = n - (Ceil(n, l) - 1) * l
     /\ ex.res.body.pagination.pages = Ceil(n, l)
     /\ ex.res.body.pagination.total = n

\* C10, as claimed: the last page returns the remaining records, reports
\* pages and total, and says hasNext = false.
C10_LastPage ==
  LastPageAsked(last) =>
    /\ LastPageNumbers(last)
    /\ Has(last.res.body.pagination, "hasNext")
    /\ last.res.body.pagination.hasNext = FALSE

\* ------------------------------------------------------------------ C11
\* The by-id request of the step names a well-formed identifier that the
\* caller's tenant holds no record for: the record does not exist, or it
\* exists under another tenant.
OutOfScope(coll, routes) ==
  /\ RequestStep
  /\ last'.req.route \in routes
  /\ last'.req.role \in Roles
  /\ last'.req.params.id \in Int
  /\ ~(/\ last'.req.params.id \in DOMAIN coll
       /\ coll[last'.req.params.id].hospitalId = CallerTenant(last'))

OutOfScopeById ==
  \/ OutOfScope(patients, PatientByIdRoutes)
  \/ OutOfScope(doctors, DoctorByIdRoutes)
  \/ OutOfScope(staff, StaffByIdRoutes)
  \/ OutOfScope(appointments, AppointmentByIdRoutes)

NotFoundMessage(route) ==
  CASE route \in PatientByIdRoutes -> "Patient not found"
    [] route \in DoctorByIdRoutes -> "Doctor not found"
    [] route \in StaffByIdRoutes -> "Staff member not found"
    [] route \in AppointmentByIdRoutes -> "Appointment not found"

\* The answer to an out-of-scope by-id request, told from the request alone.
ProbeAnswer(req) ==
  IF req.role \notin ListedRoles(req.route)
    THEN [status |-> 403, body |-> [success |-> FALSE, message |-> "Access denied"]]
  ELSE IF UpdateRefused(req)
    THEN [status |-> 500, body |-> [success |-> FALSE, message |-> "Server error"]]
  ELSE [status |-> 404,
        body |-> [success |-> FALSE, message |-> NotFoundMessage(req.route)]]

\* C11: the response (status and body) to GET, PUT or DELETE /:id with a
\* well-formed identifier is a function of the request alone whenever the
\* caller's tenant holds no such record, so it is the same whether the record
\* does not exist at all or exists under another tenant; the store is left as
\* it was in both cases.
C11_NoExistenceProbe ==
  [][OutOfScopeById => /\ last'.res = ProbeAnswer(last'.req)
                       /\ Store' = Store]_vars

\* C11 witness: GET /api/patients/:id was answered 404 for a patient that
\* exists under another tenant, in a store that holds no patient at all under
\* another well-formed identifier.
C11_Witness ==
  /\ last.req.route = "GET /api/patients/:id"
  /\ last.req.role \in Roles
  /\ last.req.params.id \in DOMAIN patients
  /\ patients[last.req.params.id].hospitalId # CallerTenant(last)
  /\ last.res.status = 404
  /\ PatientIds \ DOMAIN patients # {}

\* ------------------------------------------------------------------ C12
\* The request of the step carries a valid token minted for another tenant
\* than the one its host resolves to.
ReplayedToken(ex) ==
  /\ Has(ex.req, "token")
  /\ ex.req.token.kind = "valid"
  /\ ex.req.token.hospitalId # ex.req.host

\* C12: a request that presents the valid token of a tenant to the host of
\* another tenant is answered with an authorization error (403) and nothing
\* of the store changes: no handler runs for it.
C12_TokenTenantMatch ==
  [][(RequestStep /\ ReplayedToken(last')) =>
       /\ last'.res.status = 403
       /\ ~last'.res.body.success
       /\ ~Has(last'.res.body, "data")
       /\ Store' = Store
       /\ nextId' = nextId]_vars

\* C12 witness: the token of a user of h1 was presented to the host of h2 on
\* POST /api/patients, a route that would write, and was answered 403.
C12_Witness ==
  /\ ReplayedToken(last)
  /\ last.req.token.hospitalId = "h1"
  /\ last.req.host = "h2"
  /\ last.req.route = "POST /api/patients"
  /\ last.res.status = 403

\* ------------------------------------------------------------------ C13
\* The request carries no valid token.
NoValidToken(ex) == Has(ex.req, "token") /\ ex.req.token \in BadTokens

\* C13: on every route of every router a request whose token is absent,
\* malformed, badly signed or expired is answered 401 and nothing of the
\* store changes: no handler runs for it.
C13_AuthFirst ==
  [][(RequestStep /\ NoValidToken(last')) =>
       /\ last'.res.status = 401
       /\ ~last'.res.body.success
       /\ ~Has(last'.res.body, "data")
       /\ Store' = Store
       /\ nextId' = nextId]_vars

\* C13 witness: an expired token on GET /api/dashboard/stats was answered 401
\* while the store held patients.
C13_Witness ==
  /\ NoValidToken(last)
  /\ last.req.token.kind = "expired"
  /\ last.req.route = "GET /api/dashboard/stats"
  /\ last.res.status = 401
  /\ DOMAIN patients # {}

\* ------------------------------------------------------------------ C14
\* The handler of the request throws: the store refuses a negative skip, the
\* save of an appointment without its required fields fails validation, or
\* the identifier in the path cannot be parsed.
HandlerThrows(ex) ==
  \/ /\ PagedRequest(ex)
     /\ SkipOf(ParsePage(ex.req.query), ParseLimit(ex.req.query)) < 0
  \/ /\ ex.req.route = "POST /api/appointments"
     /\ ex.req.role \in ListedRoles(ex.req.route)
     /\ ex.req.body = NoFields
  \/ /\ ex.req.route \in {"GET /api/patients/recent", "GET /api/doctors/available"}
     /\ ex.req.role \in Roles

\* C14: a failure inside a handler is answered with the error envelope
\* {success: false, message} and the server takes the next request; every
\* served request has a response.
C14_FailureCaught ==
  /\ last # Idle => last.res.status # 0
  /\ (last # Idle /\ HandlerThrows(last)) =>
       /\ last.res.status = 500
       /\ DOMAIN last.res.body = {"success", "message"}
       /\ last.res.body.success = FALSE
       /\ ENABLED NextRequest

\* C14 witness: the save of an appointment without its required fields
\* failed and was answered 500.
C14_Witness ==
  /\ last.req.route = "POST /api/appointments"
  /\ HandlerThrows(last)
  /\ last.res.status = 500

\* ------------------------------------------------------------------ C15
\* A create request that passed its route's gate and whose body lacks a
\* required field or holds a malformed one.
InvalidCreate(ex) ==
  /\ ex.req.route \in CreateRoutes
  /\ ex.req.role \in ListedRoles(ex.req.route)
  /\ \/ /\ ex.req.route = "POST /api/patients"
        /\ PatientValidationErrors(ex.req.body) # <<>>
     \/ /\ ex.req.route = "POST /api/appointments"
        /\ ex.req.body = NoFields
     \/ /\ ex.req.route = "POST /api/staff"
        /\ \/ ~Has(ex.req.body.userData, "email")
           \/ ~Has(ex.req.body.staffData, "employeeId")

\* C15, as claimed: a create request with missing or malformed fields is
\* answered 400 with per-field errors and persists nothing.
C15_InvalidCreate400 ==
  [][(RequestStep /\ InvalidCreate(last')) =>
       /\ last'.res.status = 400
       /\ Has(last'.res.body, "errors")
       /\ Store' = Store]_vars

\* ------------------------------------------------------------------ C16
\* C16: every response carries a boolean success field, and success is true
\* exactly when the status code is 200 or 201.
C16_SuccessMatchesStatus ==
  last # Idle =>
    /\ Has(last.res.body, "success")
    /\ last.res.body.success \in BOOLEAN
    /\ last.res.body.success <=> last.res.status \in {200, 201}

\* C16 witness: GET /api/doctors/:id answered 404 with success = false.
C16_Witness ==
  /\ last.req.route = "GET /api/doctors/:id"
  /\ last.res.status = 404
  /\ last.res.body.success = FALSE

\* ------------------------------------------------------------------ C17
\* The documented fixed-path GET endpoints, with their router and path word.
FixedPaths ==
  {[route |-> "GET /api/patients/recent", router |-> "patients", word |-> "recent"],
   [route |-> "GET /api/doctors/available", router |-> "doctors", word |-> "available"],
   [route |-> "GET /api/appointments/upcoming", router |-> "appointments",
    word |-> "upcoming"],
   [route |-> "GET /api/staff/departments", router |-> "staff", word |-> "departments"]}

\* C17, as claimed: a request for a fixed-path GET endpoint is dispatched to
\* that endpoint's own handler and answered 200 with its list.
C17_FixedPathsReachHandler ==
  \A fp \in FixedPaths :
    (last.req.route = fp.route /\ last.req.role \in Roles) =>
      /\ Dispatch(Routers[fp.router], "GET", <<fp.word>>) = fp.route
      /\ last.res.status = 200
      /\ Has(last.res.body, "data")

\* ------------------------------------------------------------------ C18
\* The routes that answer with a list of patient records.
PatientRecordLists == {"GET /api/patients", "GET /api/dashboard/recent-patients"}

\* C18, as claimed: a patient-role user is one patient, so a list answered to
\* that user holds the record of at most one patient.
C18_PatientSeesOwnOnly ==
  (/\ last.req.role = "patient"
   /\ last.req.route \in PatientRecordLists
   /\ last.res.status = 200) =>
    Cardinality({last.res.body.data[k]._id : k \in DOMAIN last.res.body.data}) <= 1

\* ------------------------------------------------------------------ C19
\* The request is a DELETE on route for a record of coll that the caller's
\* tenant holds, sent by a role the route lists.
DeleteOwn(coll, route) ==
  /\ RequestStep
  /\ last'.req.route = route
  /\ last'.req.role \in ListedRoles(route)
  /\ last'.req.params.id \in DOMAIN coll
  /\ coll[last'.req.params.id].hospitalId = CallerTenant(last')

\* The step keeps every record of coll and changes only the status of the
\* addressed one, to the given value.
OnlyStatusSet(coll, after, status) ==
  /\ DOMAIN after = DOMAIN coll
  /\ \A i \in DOMAIN coll :
       after[i] = IF i = last'.req.params.id
                    THEN [coll[i] EXCEPT !.status = status]
                    ELSE coll[i]

\* The same, but for the updatedAt timestamp of the addressed record, which
\* the step may move.
StatusAndTimestampSet(coll, after, status) ==
  /\ DOMAIN after = DOMAIN coll
  /\ \A i \in DOMAIN coll :
       IF i = last'.req.params.id
         THEN /\ DOMAIN after[i] = DOMAIN coll[i]
              /\ after[i].status = status
              /\ \A f \in DOMAIN coll[i] \ {"status", "updatedAt"} :
                   after[i][f] = coll[i][f]
         ELSE after[i] = coll[i]

\* C19, as claimed: DELETE on a staff member or an appointment of the caller's
\* tenant is answered 200, keeps the record and changes its status only, every
\* other field staying as it was.
C19_SoftDeleteAllFields ==
  [][/\ DeleteOwn(staff, "DELETE /api/staff/:id") =>
          /\ last'.res.status = 200
          /\ OnlyStatusSet(staff, staff', "inactive")
     /\ DeleteOwn(appointments, "DELETE /api/appointments/:id") =>
          /\ last'.res.status = 200
          /\ OnlyStatusSet(appointments, appointments', "Cancelled")]_vars

\* C19, amended: DELETE on a staff member or an appointment of the caller's
\* tenant is answered 200 whatever the current status, keeps the record under
\* its identifier and tenant, sets its status to inactive or Cancelled and
\* changes no other field but updatedAt; no other record changes, and a DELETE
\* that is not answered 200 changes nothing.
C19_SoftDelete ==
  [][/\ DeleteOwn(staff, "DELETE /api/staff/:id") =>
          /\ last'.res.status = 200
          /\ StatusAndTimestampSet(staff, staff', "inactive")
          /\ UNCHANGED <<users, patients, doctors, appointments, nextId>>
     /\ DeleteOwn(appointments, "DELETE /api/appointments/:id") =>
          /\ last'.res.status = 200
          /\ StatusAndTimestampSet(appointments, appointments', "Cancelled")
          /\ UNCHANGED <<users, patients, doctors, staff, nextId>>
     /\ (/\ RequestStep
         /\ last'.req.route \in {"DELETE /api/staff/:id", "DELETE /api/appointments/:id"}
         /\ last'.res.status # 200) => Store' = Store]_vars

\* C19 witness: a DELETE answered 200 left the staff member stored as inactive
\* under the caller's tenant, with its employee id and a later updatedAt.
C19_Witness ==
  /\ last.req.route = "DELETE /api/staff/:id"
  /\ last.res.status = 200
  /\ last.req.params.id \in DOMAIN staff
  /\ staff[last.req.params.id].status = "inactive"
  /\ staff[last.req.params.id].hospitalId = last.req.hospitalId
  /\ staff[last.req.params.id].employeeId = "E1"
  /\ staff[last.req.params.id].updatedAt = Clock.later

\* ------------------------------------------------------------------ C20
\* C20, as claimed: after a successful DELETE /api/patients/:id the patient
\* record is still stored under its identifier and tenant.
C20_PatientSoftDelete ==
  [][(/\ RequestStep
      /\ last'.req.route = "DELETE /api/patients/:id"
      /\ last'.res.status = 200) =>
       /\ last'.req.params.id \in DOMAIN patients'
       /\ patients'[last'.req.params.id].hospitalId = CallerTenant(last')]_vars

\* ------------------------------------------------------------------ C21
\* A POST /api/staff that passed the role gate.
StaffCreation ==
  /\ RequestStep
  /\ last'.req.route = "POST /api/staff"
  /\ last'.req.role \in ListedRoles("POST /api/staff")

\* The step stored exactly one new user account, and no staff profile names it.
UserLeftAlone ==
  /\ Cardinality(DOMAIN users' \ DOMAIN users) = 1
  /\ \A u \in DOMAIN users : users'[u] = users[u]
  /\ \A u \in DOMAIN users' \ DOMAIN users :
       \A i \in DOMAIN staff' : staff'[i].userId # u

\* C21: when the user account is saved and the save of the staff profile then
\* fails, the answer is an error, the account stays stored with no staff
\* profile linked to it and no profile is written; when the save of the user
\* account fails, neither an account nor a profile is written.
C21_TwoWrites ==
  [][StaffCreation =>
       /\ ~Has(last'.req.body.userData, "email") =>
            /\ last'.res.status = 500
            /\ Store' = Store
       /\ (/\ Has(last'.req.body.userData, "email")
           /\ ~Has(last'.req.body.staffData, "employeeId")) =>
            /\ last'.res.status = 500
            /\ staff' = staff
            /\ UserLeftAlone
       /\ last'.res.status = 500 =>
            /\ staff' = staff
            /\ users' = users \/ UserLeftAlone]_vars

\* C21 witness: a POST /api/staff whose profile lacked the employee id was
\* answered 500; the new account is stored and no staff profile is.
C21_Witness ==
  /\ last.req.route = "POST /api/staff"
  /\ last.req.role \in ListedRoles("POST /api/staff")
  /\ Has(last.req.body.userData, "email")
  /\ ~Has(last.req.body.staffData, "employeeId")
  /\ last.res.status = 500
  /\ Len(RegisteredUsers) + 1 \in DOMAIN users
  /\ users[Len(RegisteredUsers) + 1].role = "staff"
  /\ staff = <<>>

\* ------------------------------------------------------------------ C22
UpdateRoutes ==
  {"PUT /api/patients/:id", "PUT /api/doctors/:id", "PUT /api/staff/:id",
   "PUT /api/appointments/:id"}

\* The body of the update names a status outside the schema's enum.
BogusStatus(req) == Has(req.body, "status") /\ req.body.status = "Bogus"

C23_StageOrder ==
  [][(RequestStep /\ last'.req.route = "POST /api/patients") =>
       /\ NoValidToken(last') =>
            /\ last'.res.status = 401
            /\ Store' = Store
       /\ (/\ last'.req.role \in Roles \ {"doctor", "hospitalOwner", "staff"}
           /\ PatientValidationErrors(last'.req.body) # <<>>) =>
            /\ last'.res.status = 403
            /\ Store' = Store
       /\ (/\ last'.req.role \in {"doctor", "hospitalOwner", "staff"}
           /\ PatientValidationErrors(last'.req.body) # <<>>) =>
            /\ last'.res.status = 400
            /\ Store' = Store]_vars

\* C23 witness: a patient-role user sent POST /api/patients with an invalid
\* first name and was answered 403.
C23_Witness ==
  /\ last.req.route = "POST /api/patients"
  /\ last.req.role = "patient"
  /\ PatientValidationErrors(last.req.body) # <<>>
  /\ last.res.status = 403

\* ------------------------------------------------------------------ C24
\* The update that a PUT or a cancelling DELETE on an appointment asks for.
UpdateAsked(req) ==
  IF req.route = "PUT /api/appointments/:id" THEN req.body
                                             ELSE [status |-> "Cancelled"]

\* Slot k holds an update or cancellation of the stored appointment id that
\* would be answered 200 when served alone: a listed role of the
\* appointment's tenant, a body the validators accept, the tenant left as is.
ServedAlone200(k, id) ==
  LET req == inflight[k].req
  IN /\ req.route \in {"PUT /api/appointments/:id", "DELETE /api/appointments/:id"}
     /\ req.params.id = id
     /\ req.role \in {"doctor", "hospitalOwner", "staff"}
     /\ req.hospitalId = SeedAppointments[id].hospitalId
     /\ ~BogusStatus(req)
     /\ ~Has(req.body, "hospitalId")

\* Both requests are answered.
BothDone == DOMAIN inflight = {1, 2} /\ \A k \in {1, 2} : inflight[k].pc = "done"

C25_ReferencesInTenant ==
  \A a \in DOMAIN appointments :
    /\ appointments[a].patientId \in DOMAIN patients
    /\ patients[appointments[a].patientId].hospitalId = appointments[a].hospitalId
    /\ appointments[a].doctorId \in DOMAIN doctors
    /\ doctors[appointments[a].doctorId].hospitalId = appointments[a].hospitalId

\* ------------------------------------------------------------------ C26
\* C26, as claimed, for POST /api/staff: the answer to a hospital owner who
\* creates a staff member depends on the records of the owner's tenant only,
\* so the request is refused only when a staff member of that tenant holds
\* the employee id.
C26_OtherTenantsIrrelevant ==
  \A k \in DOMAIN inflight :
    (/\ inflight[k].pc = "done"
     /\ inflight[k].req.route = "POST /api/staff"
     /\ inflight[k].req.role = "hospitalOwner") =>
      \/ inflight[k].res.status = 201
      \/ \E i \in DOMAIN staff :
           /\ staff[i].hospitalId = inflight[k].req.hospitalId
           /\ staff[i].employeeId = inflight[k].req.body.staffData.employeeId

\* ------------------------------------------------------------------ C27
\* The step stored exactly one new doctor profile, linked to the caller.
ProfileOfCaller ==
  /\ Cardinality(DOMAIN doctors' \ DOMAIN doctors) = 1
  /\ \A d \in DOMAIN doctors : doctors'[d] = doctors[d]
  /\ \A d \in DOMAIN doctors' \ DOMAIN doctors :
       doctors'[d].userId = last'.req.user

\* C27: a POST /api/doctors answered 201 stored a profile linked to the
\* caller and made the caller, and nobody else, a doctor; one answered
\* otherwise changed no user and stored nothing, or stored the caller's
\* profile and answered 500; no other step changes the role of a user.
C27_DoctorLinksCaller ==
  [][/\ (RequestStep /\ last'.req.route = "POST /api/doctors") =>
          IF last'.res.status = 201
            THEN /\ ProfileOfCaller
                 /\ DOMAIN users' = DOMAIN users
                 /\ users'[last'.req.user].role = "doctor"
                 /\ \A u \in DOMAIN users \ {last'.req.user} : users'[u] = users[u]
            ELSE /\ users' = users
                 /\ \/ doctors' = doctors
                    \/ ProfileOfCaller /\ last'.res.status = 500
     /\ \A u \in DOMAIN users :
          users'[u].role # users[u].role =>
            /\ last'.req.route = "POST /api/doctors"
            /\ last'.req.user = u]_vars

\* C27 witness: a hospital owner sent POST /api/doctors with another user's
\* id in the body; the stored profile names the owner, who is now a doctor.
C27_Witness ==
  /\ last.req.route = "POST /api/doctors"
  /\ last.req.role = "hospitalOwner"
  /\ Has(last.req.body, "userId")
  /\ last.req.body.userId # last.req.user
  /\ last.res.status = 201
  /\ doctors[last.res.body.data._id].userId = last.req.user
  /\ users[last.req.user].role = "doctor"

\* ------------------------------------------------------------------ C28
\* C28: every user account that a POST /api/staff stores has role staff and
\* the caller's tenant, and every staff profile it stores has the caller's
\* tenant and names the account stored by the same request.
C28_StaffAccountStamped ==
  [][(RequestStep /\ last'.req.route = "POST /api/staff") =>
       /\ \A u \in DOMAIN users' \ DOMAIN users :
            /\ users'[u].role = "staff"
            /\ users'[u].hospitalId = CallerTenant(last')
       /\ \A i \in DOMAIN staff' \ DOMAIN staff :
            /\ staff'[i].userId \in DOMAIN users' \ DOMAIN users
            /\ staff'[i].hospitalId = CallerTenant(last')
       /\ last'.res.status = 201 =>
            /\ Cardinality(DOMAIN users' \ DOMAIN users) = 1
            /\ Cardinality(DOMAIN staff' \ DOMAIN staff) = 1]_vars

\* C28 witness: a POST /api/staff whose userData asked for role hospitalOwner
\* in another tenant and whose staffData named user 1 was answered 201; the
\* stored account is a staff account of the caller's tenant and the profile
\* names it.
C28_Witness ==
  /\ last.req.route = "POST /api/staff"
  /\ last.res.status = 201
  /\ Has(last.req.body.userData, "role")
  /\ last.req.body.userData.role = "hospitalOwner"
  /\ last.req.body.userData.hospitalId # last.req.hospitalId
  /\ Has(last.req.body.staffData, "userId")
  /\ last.req.body.staffData.userId = 1
  /\ staff[last.res.body.data._id].userId = Len(RegisteredUsers) + 1
  /\ users[Len(RegisteredUsers) + 1].role = "staff"
  /\ users[Len(RegisteredUsers) + 1].hospitalId = last.req.hospitalId

\* ------------------------------------------------------------------ C29
\* The filter of GET /api/appointments/upcoming applied to one document of
\* the caller's tenant.
MatchesUpcoming(doc) ==
  doc.appointmentDate >= Today /\ doc.status \in {"Scheduled", "Confirmed"}

\* DELETE /api/appointments/:id has cancelled appointment id with a 200.
CancelledByDelete(id) ==
  \E k \in DOMAIN inflight :
    /\ inflight[k].pc = "done"
    /\ inflight[k].req.route = "DELETE /api/appointments/:id"
    /\ inflight[k].req.params.id = id
    /\ inflight[k].res.status = 200

\* C29, as claimed: an appointment that a DELETE has cancelled is not among
\* the appointments GET /api/appointments/upcoming returns, whatever was
\* served since.
C29_CancelledStaysOut ==
  \A id \in DOMAIN appointments :
    CancelledByDelete(id) => ~MatchesUpcoming(appointments[id])

\* ------------------------------------------------------------------ C30
\* The number of records a page holds when total records match the query.
PageSize(page, limit, total) ==
  Min(limit, IF total - (page - 1) * limit > 0 THEN total - (page - 1) * limit ELSE 0)

\* C30, as claimed: a list answered while other requests are served holds
\* min(limit, max(0, total - (page-1)*limit)) records, total being the total
\* of its pagination block.
C30_PageMatchesTotal ==
  \A k \in DOMAIN inflight :
    (/\ inflight[k].pc = "done"
     /\ inflight[k].req.route = "GET /api/patients"
     /\ inflight[k].res.status = 200)
    => LET body == inflight[k].res.body
       IN Len(body.data) = PageSize(body.pagination.page, body.pagination.limit,
                                    body.pagination.total)

====
